---- MODULE Spec2Model ----
(***************************************************************************)
(* The shared dataset engine of RTGS-AI-Analyst: the module-level state of *)
(* tools/data_tools.py (current_dataset, dataset_metadata,                 *)
(* transformation_log), the tools that load, transform and log, and the    *)
(* analysis tools of the sibling modules that import current_dataset.      *)
(*                                                                         *)
(* Texts (operation strings, column names) are sequences of one-character  *)
(* strings, so that lower(), strip(), replace() and the substring test of  *)
(* the deny-list are computed character by character.                      *)
(***************************************************************************)
EXTENDS Integers, Sequences, FiniteSets, TLC

\* ------------------------------------------------------------------ bounds

\* The longest ledger (and durable log) the model lets grow.
MaxLog == 2

\* The longest operation text made up from SafetyAlphabet.
MaxTextLen == 3

\* The longest column of zeros and ones given to outlier detection.
MaxBinaryLen == 11

\* The longest column over SeriesValues given to outlier detection.
MaxSeriesLen == 5

\* The longest column with missing cells given to outlier detection.
MaxSparseLen == 3

\* The most rows of a table given to trend analysis.
MaxTrendRows == 2
MaxMiddlePeriods == 5
MaxCompletenessRows == 10

\* ------------------------------------------------------------------- texts

UpperLetters ==
    <<"A", "B", "C", "D", "E", "F", "G", "H", "I", "J", "K", "L", "M",
      "N", "O", "P", "Q", "R", "S", "T", "U", "V", "W", "X", "Y", "Z">>

LowerLetters ==
    <<"a", "b", "c", "d", "e", "f", "g", "h", "i", "j", "k", "l", "m",
      "n", "o", "p", "q", "r", "s", "t", "u", "v", "w", "x", "y", "z">>

\* str.lower() on one character.
LowerChar(c) ==
    IF \E i \in DOMAIN UpperLetters : UpperLetters[i] = c
    THEN LowerLetters[CHOOSE i \in DOMAIN UpperLetters : UpperLetters[i] = c]
    ELSE c

\* operation.lower()
Lower(s) == [i \in DOMAIN s |-> LowerChar(s[i])]

\* startswith instead of in: the term is only found at the start of the text.
Contains_AtStart(s, t) == Len(t) =< Len(s) /\ SubSeq(s, 1, Len(t)) = t

\* term in text
Contains(s, t) ==
    \E i \in 0..(Len(s) - Len(t)) : SubSeq(s, i + 1, i + Len(t)) = t

\* The operation texts a caller may send to SafeExecuteTool.
OpDropDuplicates ==
    <<"d", "r", "o", "p", "_", "d", "u", "p", "l", "i", "c", "a", "t", "e",
      "s", "(", ")">>

OpDropna == <<"d", "r", "o", "p", "n", "a", "(", ")">>

OpDropnaInplace ==
    <<"d", "r", "o", "p", "n", "a", "(", "i", "n", "p", "l", "a", "c", "e",
      "=", "T", "r", "u", "e", ")">>

OpDropB ==
    <<"d", "r", "o", "p", "(", "c", "o", "l", "u", "m", "n", "s", "=", "[",
      "'", "b", "'", "]", ")">>

OpEvalUpper == <<"E", "V", "A", "L", "(", "'", "1", "'", ")">>

OpRenameProfile ==
    <<"r", "e", "n", "a", "m", "e", "(", "c", "o", "l", "u", "m", "n", "s",
      "=", "{", "'", "a", "'", ":", "'", "p", "r", "o", "f", "i", "l", "e",
      "'", "}", ")">>

Operations ==
    {OpDropDuplicates, OpDropna, OpDropnaInplace, OpDropB, OpEvalUpper,
     OpRenameProfile}

\* dangerous_terms of SafeExecuteTool._run
dangerous_terms ==
    << <<"i", "m", "p", "o", "r", "t">>,
       <<"e", "x", "e", "c">>,
       <<"e", "v", "a", "l">>,
       <<"_", "_">>,
       <<"o", "p", "e", "n">>,
       <<"f", "i", "l", "e">>,
       <<"o", "s", ".">>,
       <<"s", "y", "s", ".">>,
       <<"s", "u", "b", "p", "r", "o", "c", "e", "s", "s">> >>

\* The deny-list test without lower(): a term written in capitals passes.
IsDangerous_CaseSensitive(operation) ==
    \E k \in DOMAIN dangerous_terms : Contains(operation, dangerous_terms[k])

\* any(term in operation.lower() for term in dangerous_terms)
IsDangerous(operation) ==
    \E k \in DOMAIN dangerous_terms :
        Contains(Lower(operation), dangerous_terms[k])

\* The operation texts of Operations that the deny-list stops, computed once.
BlockedOperations == {operation \in Operations : IsDangerous(operation)}

\* ------------------------------------------------------------------ tables

\* A missing cell (pandas NaN), as read_csv produces it for an empty field.
NaN == -1

\* A cell that holds text (dtype object) is a number from TextCode up: a
\* text that reads as a calendar date ("2023-01-15") is DateText + yyyymmdd,
\* any other text is OtherText + a code of its own.  The numbers a column
\* holds are below TextCode.
TextCode == 100000000

DateText == TextCode

OtherText == 2 * TextCode

IsText(cell) == cell >= TextCode

\* pd.api.types.is_numeric_dtype(df[column]): read_csv gives a column with a
\* text cell dtype object, and a column of numbers or of nothing but missing
\* cells a numeric dtype.
IsNumericColumn(df, c) == \A r \in DOMAIN df.rows : ~IsText(df.rows[r][c])

\* current_dataset = None
None == [none |-> TRUE]

\* A DataFrame: column names in order, rows in order, every row one cell
\* per column.
DataFrame(cols, rows) == [cols |-> cols, rows |-> rows]

\* df.shape
Shape(df) == <<Len(df.rows), Len(df.cols)>>

\* The subsequence of s at the positions in keep, from position i on.
RECURSIVE SelectIdx(_, _, _)
SelectIdx(s, keep, i) ==
    IF i > Len(s) THEN <<>>
    ELSE (IF i \in keep THEN <<s[i]>> ELSE <<>>) \o SelectIdx(s, keep, i + 1)

\* The comparison with earlier rows started one row late: the first row is
\* never kept.
DropDuplicates_SkipsFirstRow(df) ==
    LET first == {i \in DOMAIN df.rows :
                     i > 1 /\ \A j \in 1..(i - 1) : df.rows[j] # df.rows[i]}
    IN  DataFrame(df.cols, SelectIdx(df.rows, first, 1))

\* df.drop_duplicates(): keeps the first of equal rows (NaN equals NaN).
DropDuplicates(df) ==
    LET first == {i \in DOMAIN df.rows :
                     \A j \in 1..(i - 1) : df.rows[j] # df.rows[i]}
    IN  DataFrame(df.cols, SelectIdx(df.rows, first, 1))

\* df.dropna(): keeps the rows with no missing cell.
Dropna(df) ==
    LET full == {i \in DOMAIN df.rows :
                    \A c \in DOMAIN df.rows[i] : df.rows[i][c] # NaN}
    IN  DataFrame(df.cols, SelectIdx(df.rows, full, 1))

\* df.drop(columns=[name]): without the columns of that name.
DropColumn(df, name) ==
    LET other == {c \in DOMAIN df.cols : df.cols[c] # name}
    IN  DataFrame(SelectIdx(df.cols, other, 1),
                  [r \in DOMAIN df.rows |-> SelectIdx(df.rows[r], other, 1)])

\* df.rename(columns={old: new})
RenameColumn(df, old, new) ==
    DataFrame([c \in DOMAIN df.cols |->
                  IF df.cols[c] = old THEN new ELSE df.cols[c]], df.rows)

\* ------------------------------------------------------------------- files

Whitespace == {" ", "\t", "\n", "\r"}

\* str.strip()
RECURSIVE Strip(_)
Strip(s) ==
    IF s = <<>> THEN s
    ELSE IF Head(s) \in Whitespace THEN Strip(Tail(s))
    ELSE IF s[Len(s)] \in Whitespace THEN Strip(SubSeq(s, 1, Len(s) - 1))
    ELSE s

\* str.replace(old, new) for one-character old and new.
Replace(s, old, new) == [i \in DOMAIN s |-> IF s[i] = old THEN new ELSE s[i]]

\* columns.str.strip().str.replace('\n', ' ').str.replace('\r', ' ')
CleanColumnName(name) == Replace(Replace(Strip(name), "\n", " "), "\r", " ")

CleanColumns(df) ==
    DataFrame([c \in DOMAIN df.cols |-> CleanColumnName(df.cols[c])], df.rows)

\* encodings and separators of ReadCSVTool._run, in the order it tries them.
encodings == <<"utf-8", "latin-1", "cp1252", "iso-8859-1">>

separators == <<",", ";", "\t", "|">>

EightBit == {"latin-1", "cp1252", "iso-8859-1"}

AllEncodings == {encodings[i] : i \in DOMAIN encodings}

\* The text of a header line that was not split: the names with the file's
\* delimiter between them.
RECURSIVE JoinNames(_, _)
JoinNames(names, d) ==
    IF Len(names) = 1 THEN names[1]
    ELSE names[1] \o <<d>> \o JoinNames(Tail(names), d)

\* A code that is different for different data lines.
RECURSIVE LineCode(_)
LineCode(row) ==
    IF row = <<>> THEN 1
    ELSE LineCode(SubSeq(row, 1, Len(row) - 1)) * 10 + (row[Len(row)] + 1)

\* The text of a data line that was not split, as one cell of text.
JoinCells(row) == OtherText + LineCode(row)

\* The files on disk: whether the path exists, the encodings its bytes
\* decode under, its delimiter ("" for a file of one column), its header
\* and its data lines.
PathSales == <<"data", "sales.csv">>
PathSemi == <<"data", "small.csv">>
PathLatinPipe == <<"data", "latin_pipe.csv">>
PathLatinNames == <<"data", "latin_names.csv">>
PathIds == <<"data", "ids.csv">>
PathMixed == <<"data", "mixed.csv">>
PathMissing == <<"data", "missing.csv">>

FilePaths ==
    {PathSales, PathSemi, PathLatinPipe, PathLatinNames, PathIds, PathMixed,
     PathMissing}

HeaderAB == << <<"a">>, <<" ", "b">> >>
HeaderPlainAB == << <<"a">>, <<"b">> >>
HeaderA == << <<"a">> >>

FileAt(file_path) ==
    CASE file_path = PathSales ->
            [exists |-> TRUE, decodable |-> AllEncodings, delimiter |-> ",",
             header |-> HeaderAB,
             lines |-> << <<1, 2>>, <<1, 2>>, <<NaN, 2>> >>]
      [] file_path = PathSemi ->
            [exists |-> TRUE, decodable |-> AllEncodings, delimiter |-> ";",
             header |-> HeaderPlainAB,
             lines |-> << <<2, 1>>, <<2, NaN>> >>]
      [] file_path = PathLatinPipe ->
            [exists |-> TRUE, decodable |-> EightBit, delimiter |-> "|",
             header |-> HeaderPlainAB,
             lines |-> << <<2, 1>>, <<2, 1>> >>]
      [] file_path = PathLatinNames ->
            [exists |-> TRUE, decodable |-> EightBit, delimiter |-> "",
             header |-> HeaderA,
             lines |-> << <<1>>, <<2>> >>]
      [] file_path = PathIds ->
            [exists |-> TRUE, decodable |-> AllEncodings, delimiter |-> "",
             header |-> HeaderA,
             lines |-> << <<1>>, <<1>> >>]
      [] file_path = PathMixed ->
            \* the lines "a,b;c" and "1,2;3": two columns at the comma
            \* and two other columns at the semicolon
            [exists |-> TRUE, decodable |-> AllEncodings, delimiter |-> ",",
             header |-> << <<"a">>, <<"b", ";", "c">> >>,
             lines |-> << <<1, OtherText + 23>> >>,
             also |-> [delimiter |-> ";",
                       header |-> << <<"a", ",", "b">>, <<"c">> >>,
                       lines |-> << <<OtherText + 12, 3>> >>]]
      [] OTHER ->
            [exists |-> FALSE, decodable |-> {}, delimiter |-> "",
             header |-> <<>>, lines |-> <<>>]

\* os.path.basename(file_path)
Basename(file_path) == file_path[Len(file_path)]

\* pd.read_csv(file_path, encoding=encoding, sep=sep): raises when the file
\* is absent or its bytes do not decode; splits the lines at sep otherwise,
\* which leaves one column when sep is not the file's delimiter.
ReadCsv(file_path, encoding, sep) ==
    LET f == FileAt(file_path)
    IN  IF ~f.exists \/ encoding \notin f.decodable
        THEN [raised |-> TRUE, df |-> None]
        ELSE IF f.delimiter = sep \/ f.delimiter = ""
        THEN [raised |-> FALSE, df |-> DataFrame(f.header, f.lines)]
        ELSE IF "also" \in DOMAIN f /\ f.also.delimiter = sep
        THEN [raised |-> FALSE,
              df |-> DataFrame(f.also.header, f.also.lines)]
        ELSE [raised |-> FALSE,
              df |-> DataFrame(<<JoinNames(f.header, f.delimiter)>>,
                               [r \in DOMAIN f.lines |->
                                   <<JoinCells(f.lines[r])>>])]

\* pd.read_csv(file_path): UTF-8 and comma.
ReadCsvDefault(file_path) == ReadCsv(file_path, "utf-8", ",")

\* ------------------------------------------------------------ evaluation

ColumnB == <<"b">>
ColumnA == <<"a">>
ColumnProfile == <<"p", "r", "o", "f", "i", "l", "e">>

\* eval(f"df.{operation}", safe_env) for the operation texts of Operations:
\* what the expression returns ("DataFrame" with its value, any other type,
\* or an exception) and the value of the object bound to df afterwards
\* (an in-place operation changes it and returns None).
Eval(df, operation) ==
    CASE operation = OpDropDuplicates ->
            [returns |-> "DataFrame", value |-> DropDuplicates(df), df |-> df]
      [] operation = OpDropna ->
            [returns |-> "DataFrame", value |-> Dropna(df), df |-> df]
      [] operation = OpDropnaInplace ->
            [returns |-> "NoneType", value |-> None, df |-> Dropna(df)]
      [] operation = OpDropB ->
            IF \E c \in DOMAIN df.cols : df.cols[c] = ColumnB
            THEN [returns |-> "DataFrame", value |-> DropColumn(df, ColumnB),
                  df |-> df]
            ELSE [returns |-> "KeyError", value |-> None, df |-> df]
      [] operation = OpRenameProfile ->
            [returns |-> "DataFrame",
             value |-> RenameColumn(df, ColumnA, ColumnProfile), df |-> df]
      [] OTHER ->
            [returns |-> "AttributeError", value |-> None, df |-> df]

Exceptions == {"KeyError", "AttributeError"}

\* eval bound to current_dataset itself instead of a copy: what an in-place
\* operation does to df is done to current_dataset.
DatasetAfterEval_NoCopy(dataset, df_after) == df_after

\* 'df': current_dataset.copy(): the expression works on a copy, so
\* current_dataset is what it was whatever the expression did to df.
DatasetAfterEval(dataset, df_after) == dataset

\* --------------------------------------------------------------- profiling

\* column_name in df.columns
HasColumn(df, name) == \E c \in DOMAIN df.cols : df.cols[c] = name

ColumnIndex(df, name) ==
    CHOOSE c \in DOMAIN df.cols :
        df.cols[c] = name /\ \A d \in 1..(c - 1) : df.cols[d] # name

\* df[name]: the cells of the column, in row order.
Column(df, name) ==
    [r \in DOMAIN df.rows |-> df.rows[r][ColumnIndex(df, name)]]

\* series.isnull().sum()
NullCount(series) == Cardinality({r \in DOMAIN series : series[r] = NaN})

\* The missing cells left in.
DropnaSeries_KeepsAll(series) == series

\* series.dropna()
DropnaSeries(series) ==
    SelectIdx(series, {r \in DOMAIN series : series[r] # NaN}, 1)

\* series.head(n)
HeadN(series, n) ==
    SubSeq(series, 1, IF Len(series) < n THEN Len(series) ELSE n)

\* series.nunique(): the distinct values, missing cells not counted.
Nunique(series) == Cardinality({series[r] : r \in DOMAIN series} \ {NaN})

\* series.value_counts(): every value that occurs, with how often.
ValueCounts(series) ==
    {<<v, Cardinality({r \in DOMAIN series : series[r] = v})>> :
        v \in {series[r] : r \in DOMAIN series} \ {NaN}}

\* df.duplicated().sum()
DuplicatedCount_AllCopies(df) ==
    Cardinality({r \in DOMAIN df.rows :
                    \E q \in DOMAIN df.rows : q # r /\ df.rows[q] = df.rows[r]})

DuplicatedCount(df) == Len(df.rows) - Len(DropDuplicates(df).rows)

\* df.dtypes, as read_csv infers them.
Dtype(df, c) ==
    IF ~IsNumericColumn(df, c) THEN "object"
    ELSE IF \E r \in DOMAIN df.rows : df.rows[r][c] = NaN THEN "float64"
    ELSE "int64"

Dtypes(df) == [c \in DOMAIN df.cols |-> Dtype(df, c)]

\* df.select_dtypes(include=[np.number]).columns.tolist()
NumericCols(df) ==
    SelectIdx(df.cols, {c \in DOMAIN df.cols : IsNumericColumn(df, c)}, 1)

\* df.select_dtypes(include=['object']).columns.tolist()
CategoricalCols(df) ==
    SelectIdx(df.cols, {c \in DOMAIN df.cols : ~IsNumericColumn(df, c)}, 1)

\* df.isnull().sum(), per column in column order.
NullCounts(df) ==
    [c \in DOMAIN df.cols |->
        Cardinality({r \in DOMAIN df.rows : df.rows[r][c] = NaN})]

\* df.notna().sum().sum()
NotnaTotal(df) ==
    Len(df.rows) * Len(df.cols)
        - Cardinality({rc \in (DOMAIN df.rows) \X (DOMAIN df.cols) :
                          df.rows[rc[1]][rc[2]] = NaN})

\* df.size
Size(df) == Len(df.rows) * Len(df.cols)

\* InspectDataTool._run once a dataset is there.  Percentages are the counts
\* over the row count, both of which the result carries.
InspectData(df, aspect) ==
    CASE aspect = "overview" ->
            [kind |-> "DATASET OVERVIEW", rows |-> Len(df.rows),
             numeric_cols |-> NumericCols(df),
             categorical_cols |-> CategoricalCols(df),
             null_counts |-> NullCounts(df),
             duplicates |-> DuplicatedCount(df)]
      [] aspect = "missing" ->
            [kind |-> "MISSING VALUE ANALYSIS", rows |-> Len(df.rows),
             missing |-> {<<df.cols[c], NullCounts(df)[c]>> :
                            c \in {d \in DOMAIN df.cols : NullCounts(df)[d] > 0}}]
      [] aspect = "types" ->
            [kind |-> "DATA TYPES", dtypes |-> Dtypes(df)]
      [] aspect = "duplicates" ->
            [kind |-> "DUPLICATE ANALYSIS", rows |-> Len(df.rows),
             dup_count |-> DuplicatedCount(df)]
      [] OTHER ->
            [kind |-> "Available aspects"]

\* The copy of the table ViewColumnTool works on written back: the sample
\* taken with dropna(inplace=True) on the column.
DatasetAfterViewColumn_DropsMissing(dataset, column_name) ==
    LET c == ColumnIndex(dataset, column_name)
    IN  DataFrame(dataset.cols,
                  SelectIdx(dataset.rows,
                            {r \in DOMAIN dataset.rows :
                                dataset.rows[r][c] # NaN}, 1))

\* col.dropna().head(10).tolist() works on a new Series: the table is what
\* it was.
DatasetAfterViewColumn(dataset, column_name) == dataset

\* ViewColumnTool._run once a dataset is there.
ViewColumn(df, column_name) ==
    IF ~HasColumn(df, column_name)
    THEN [kind |-> "Column not found", available |-> df.cols]
    ELSE LET col == Column(df, column_name)
         IN  [kind |-> "COLUMN", column |-> column_name,
              dtype |-> Dtype(df, ColumnIndex(df, column_name)),
              unique |-> Nunique(col), null_count |-> NullCount(col),
              total_rows |-> Len(col),
              statistics |-> IsNumericColumn(df, ColumnIndex(df, column_name)),
              value_counts |-> ValueCounts(col),
              sample_values |-> HeadN(DropnaSeries(col), 10)]

\* str.split(sep) for a one-character sep.
RECURSIVE Split(_, _)
Split(s, sep) ==
    IF \A i \in DOMAIN s : s[i] # sep THEN <<s>>
    ELSE LET at == CHOOSE i \in DOMAIN s :
                      s[i] = sep /\ \A j \in 1..(i - 1) : s[j] # sep
         IN  <<SubSeq(s, 1, at - 1)>> \o Split(SubSeq(s, at + 1, Len(s)), sep)

\* [p.strip() for p in parameters.split(',')]
Parts(parameters) ==
    LET parts == Split(parameters, ",")
    IN  [i \in DOMAIN parts |-> Strip(parts[i])]

AggCount == <<"c", "o", "u", "n", "t">>

\* df.groupby(group_col)[value_col].count(): per value of the group column
\* the number of non-missing cells of the value column.
GroupCount(df, group_col, value_col) ==
    LET g == Column(df, group_col)
        v == Column(df, value_col)
    IN  {<<k, Cardinality({r \in DOMAIN g : g[r] = k /\ v[r] # NaN})>> :
            k \in {g[r] : r \in DOMAIN g} \ {NaN}}

\* CalculateStatsTool._run once a dataset is there, for the aggregation
\* functions "count" and the ones it does not know; the coefficients of the
\* correlation matrix are not computed.
CalculateStats(df, stat_type, parameters) ==
    CASE stat_type = "describe" ->
            [kind |-> "DESCRIPTIVE STATISTICS",
             count |-> [c \in DOMAIN df.cols |->
                           Len(df.rows) - NullCounts(df)[c]]]
      [] stat_type = "correlation" ->
            IF NumericCols(df) = <<>> \/ df.rows = <<>>
            THEN [kind |-> "No numeric columns for correlation analysis"]
            ELSE [kind |-> "CORRELATION MATRIX", columns |-> NumericCols(df)]
      [] stat_type = "groupby" /\ parameters # <<>> ->
            LET parts == Parts(parameters)
            IN  IF Len(parts) < 3
                THEN [kind |-> "Format: group_column,value_column,agg_function"]
                ELSE IF ~HasColumn(df, parts[1])
                THEN [kind |-> "Group column not found"]
                ELSE IF ~HasColumn(df, parts[2])
                THEN [kind |-> "Value column not found"]
                ELSE IF parts[3] = AggCount
                THEN [kind |-> "GROUPED",
                      result |-> GroupCount(df, parts[1], parts[2])]
                ELSE [kind |-> "Available functions: sum, mean, count, std"]
      [] stat_type = "value_counts" /\ parameters # <<>> ->
            IF ~HasColumn(df, Strip(parameters))
            THEN [kind |-> "Column not found"]
            ELSE [kind |-> "VALUE COUNTS",
                  counts |-> ValueCounts(Column(df, Strip(parameters)))]
      [] OTHER ->
            [kind |-> "Available stats"]

\* schema_info of SaveSchemaTool._run; completeness is the non-missing
\* cells over df.size, both of which the record carries.
SchemaInfo(df, metadata, generated_at) ==
    [dataset_name |-> IF "file_name" \in DOMAIN metadata
                      THEN metadata.file_name ELSE "unknown",
     shape |-> Shape(df),
     columns |-> df.cols,
     dtypes |-> Dtypes(df),
     missing_counts |-> NullCounts(df),
     numeric |-> NumericCols(df),
     categorical |-> CategoricalCols(df),
     duplicates |-> DuplicatedCount(df),
     notna |-> NotnaTotal(df),
     size |-> Size(df),
     generated_at |-> generated_at]

\* What schema_map.md holds besides schema_info: per column the number of
\* unique values.
SchemaMarkdown(df, info) ==
    [info |-> info,
     unique |-> [c \in DOMAIN df.cols |->
                    Nunique([r \in DOMAIN df.rows |-> df.rows[r][c]])]]

\* ---------------------------------------------------------------- outliers

RECURSIVE Sum(_)
Sum(series) == IF series = <<>> THEN 0 ELSE Head(series) + Sum(Tail(series))

\* series.min(), series.max() of a series that is not empty
Min(series) ==
    CHOOSE v \in {series[i] : i \in DOMAIN series} :
        \A i \in DOMAIN series : v =< series[i]

Max(series) ==
    CHOOSE v \in {series[i] : i \in DOMAIN series} :
        \A i \in DOMAIN series : series[i] =< v

\* The values in ascending order, as quantile() orders them.
RECURSIVE Insert(_, _)
Insert(v, sorted) ==
    IF sorted = <<>> THEN <<v>>
    ELSE IF v =< Head(sorted) THEN <<v>> \o sorted
    ELSE <<Head(sorted)>> \o Insert(v, Tail(sorted))

RECURSIVE SortValues(_)
SortValues(series) ==
    IF series = <<>> THEN <<>>
    ELSE Insert(Head(series), SortValues(Tail(series)))

\* n * (v - series.mean()): the deviation of v from the mean, times the
\* number of values, which keeps it a whole number.
Deviation(series, v) == Len(series) * v - Sum(series)

\* n * n * (n - 1) * series.std() ** 2: the sum of the squared deviations
\* (series.std() divides by n - 1).
SquaredDeviations(series) ==
    Sum([i \in DOMAIN series |->
            Deviation(series, series[i]) * Deviation(series, series[i])])

\* z_scores > 3 without np.abs: only values above the mean are flagged.
ZScoreOutlier_TwoSigma(series, v) ==
    /\ Len(series) > 1
    /\ SquaredDeviations(series) > 0
    /\ Deviation(series, v) * Deviation(series, v) * (Len(series) - 1)
          > 4 * SquaredDeviations(series)

ZScoreOutlier_NoAbs(series, v) ==
    /\ Len(series) > 1
    /\ SquaredDeviations(series) > 0
    /\ Deviation(series, v) > 0
    /\ Deviation(series, v) * Deviation(series, v) * (Len(series) - 1)
          > 9 * SquaredDeviations(series)

\* np.abs((series - series.mean()) / series.std()) > 3 at the value v.
\* With one value std() is NaN, with equal values it is 0 and the quotient
\* 0 / 0 is NaN: a NaN is not greater than 3.  Otherwise |d| / std > 3 is
\* d * d > 9 * std * std, compared here after multiplying both sides by
\* n * n * (n - 1).
ZScoreOutlier(series, v) ==
    /\ Len(series) > 1
    /\ SquaredDeviations(series) > 0
    /\ Deviation(series, v) * Deviation(series, v) * (Len(series) - 1)
          > 9 * SquaredDeviations(series)

\* 4 * series.quantile(quarters / 4): pandas interpolates linearly between
\* the two order statistics around position (n - 1) * quarters / 4.
Quantile4(series, quarters) ==
    LET sorted == SortValues(series)
        k == ((Len(series) - 1) * quarters) \div 4
        r == ((Len(series) - 1) * quarters) % 4
    IN  IF r = 0 THEN 4 * sorted[k + 1]
        ELSE 4 * sorted[k + 1] + r * (sorted[k + 2] - sorted[k + 1])

\* 8 * lower_bound and 8 * upper_bound: Q1 - 1.5 * IQR and Q3 + 1.5 * IQR.
LowerBound8(series) ==
    2 * Quantile4(series, 1)
        - 3 * (Quantile4(series, 3) - Quantile4(series, 1))

UpperBound8(series) ==
    2 * Quantile4(series, 3)
        + 3 * (Quantile4(series, 3) - Quantile4(series, 1))

\* <= and >= in place of < and >: a value on a bound is flagged.
IqrOutlier_Inclusive(series, v) ==
    8 * v =< LowerBound8(series) \/ 8 * v >= UpperBound8(series)

\* (series < lower_bound) | (series > upper_bound) at the value v
IqrOutlier(series, v) ==
    8 * v < LowerBound8(series) \/ 8 * v > UpperBound8(series)

\* What the report lists of the outliers found: nothing when there are
\* none, all of them up to ten, the first five of more.
OutlierListing(outliers) ==
    IF Len(outliers) = 0 THEN [label |-> "none", values |-> <<>>]
    ELSE IF Len(outliers) =< 10
    THEN [label |-> "Outlier values", values |-> outliers]
    ELSE [label |-> "Sample outliers", values |-> HeadN(outliers, 5)]

NotRun == [run |-> FALSE]

ZScoreSection(series) ==
    LET z_score_outliers ==
            SelectIdx(series, {i \in DOMAIN series :
                                  ZScoreOutlier(series, series[i])}, 1)
    IN  [run |-> TRUE, outliers_found |-> Len(z_score_outliers),
         listing |-> OutlierListing(z_score_outliers)]

IqrSection(series) ==
    LET iqr_outliers ==
            SelectIdx(series, {i \in DOMAIN series :
                                  IqrOutlier(series, series[i])}, 1)
    IN  [run |-> TRUE, q1x4 |-> Quantile4(series, 1),
         q3x4 |-> Quantile4(series, 3),
         lower_bound_x8 |-> LowerBound8(series),
         upper_bound_x8 |-> UpperBound8(series),
         outliers_found |-> Len(iqr_outliers),
         listing |-> OutlierListing(iqr_outliers)]

\* DetectOutliersTool._run of the analyst package once a dataset is there.
\* The mean is sum / total; no arithmetic of the report raises.
DetectOutliers(df, column_name, method) ==
    IF ~HasColumn(df, column_name)
    THEN [kind |-> "Column not found", available_numeric |-> NumericCols(df)]
    ELSE IF ~IsNumericColumn(df, ColumnIndex(df, column_name))
    THEN [kind |-> "Column is not numeric. Cannot detect outliers."]
    ELSE LET series == DropnaSeries(Column(df, column_name))
         IN  IF series = <<>>
             THEN [kind |-> "Column has no valid data to analyze."]
             ELSE LET zscore == IF method \in {"zscore", "both"}
                                THEN ZScoreSection(series) ELSE NotRun
                      iqr == IF method \in {"iqr", "both"}
                             THEN IqrSection(series) ELSE NotRun
                  IN  [kind |-> "OUTLIER DETECTION REPORT",
                       column |-> column_name, total |-> Len(series),
                       sum |-> Sum(series), min |-> Min(series),
                       max |-> Max(series), zscore |-> zscore, iqr |-> iqr,
                       recommendations |->
                           IF method # "both" THEN "none"
                           ELSE IF zscore.outliers_found > 0
                                   \/ iqr.outliers_found > 0
                           THEN "Consider investigating these outliers"
                           ELSE "No significant outliers detected"]

\* series[mask].to_string() of the agentic_ai_system package: every flagged
\* value, under the heading "(Sample)".
FlaggedListing(outliers) == [label |-> "Sample", values |-> outliers]

\* DetectOutliersTool._run of the agentic_ai_system package once a dataset
\* is there: it takes no method, runs both, and reports of each the count
\* and the flagged values, without quartiles or bounds.
DetectOutliersSystem(df, column_name) ==
    IF ~HasColumn(df, column_name)
    THEN [kind |-> "Column not found or is not a numeric column."]
    ELSE IF ~IsNumericColumn(df, ColumnIndex(df, column_name))
    THEN [kind |-> "Column not found or is not a numeric column."]
    ELSE LET series == DropnaSeries(Column(df, column_name))
             z_score_outliers ==
                 SelectIdx(series, {i \in DOMAIN series :
                                       ZScoreOutlier(series, series[i])}, 1)
             iqr_outliers ==
                 SelectIdx(series, {i \in DOMAIN series :
                                       IqrOutlier(series, series[i])}, 1)
         IN  IF series = <<>>
             THEN [kind |-> "Column has no data to analyze."]
             ELSE [kind |-> "Outlier Detection Report",
                   column |-> column_name, total |-> Len(series),
                   zscore |-> [run |-> TRUE,
                               outliers_found |-> Len(z_score_outliers),
                               listing |-> FlaggedListing(z_score_outliers)],
                   iqr |-> [run |-> TRUE,
                            outliers_found |-> Len(iqr_outliers),
                            listing |-> FlaggedListing(iqr_outliers)]]

\* ------------------------------------------------------------------ trends

\* The date pandas reads a number as: so many nanoseconds after the start
\* of 1 January 1970.
Epoch == 19700101

\* pd.to_datetime(column, errors='coerce') at one cell of column c, as
\* yyyymmdd: a missing cell and a text that is no date become NaT.
ToDatetime(df, c, cell) ==
    IF cell = NaN THEN NaN
    ELSE IF IsNumericColumn(df, c) THEN Epoch
    ELSE IF cell >= DateText /\ cell < OtherText THEN cell - DateText
    ELSE NaN

\* pd.to_numeric(column, errors='coerce') at one cell: a text that is no
\* number becomes NaN.
ToNumeric(cell) == IF IsText(cell) THEN NaN ELSE cell

Period_YearForMonth(date, frequency) ==
    CASE frequency = "D" -> date
      [] frequency = "M" -> date \div 10000
      [] frequency = "Q" ->
            (date \div 10000) * 10 + ((((date \div 100) % 100) - 1) \div 3) + 1
      [] frequency = "Y" -> date \div 10000

GrowthAbove_Inclusive(first, last, threshold) ==
    IF first > 0 THEN 100 * (last - first) >= threshold * first
    ELSE IF first < 0 THEN 100 * (last - first) =< threshold * first
    ELSE last > 0

\* dt.to_period(frequency) of a date yyyymmdd
Period(date, frequency) ==
    CASE frequency = "D" -> date
      [] frequency = "M" -> date \div 100
      [] frequency = "Q" ->
            (date \div 10000) * 10 + ((((date \div 100) % 100) - 1) \div 3) + 1
      [] frequency = "Y" -> date \div 10000

\* groupby('period')[value_column].agg(['sum', 'mean', 'count']) of rows
\* <<date, value>>: per period, in period order, the sum and the count (the
\* mean is sum / count).
Grouped(rows, frequency) ==
    LET periods == SortValues(
                       LET ps == {Period(rows[r][1], frequency) :
                                     r \in DOMAIN rows}
                           RECURSIVE AsSeq(_)
                           AsSeq(set) ==
                               IF set = {} THEN <<>>
                               ELSE LET p == CHOOSE q \in set : TRUE
                                    IN  <<p>> \o AsSeq(set \ {p})
                       IN  AsSeq(ps))
    IN  [k \in DOMAIN periods |->
            LET members == {r \in DOMAIN rows :
                               Period(rows[r][1], frequency) = periods[k]}
            IN  [period |-> periods[k],
                 sum |-> Sum(SelectIdx([r \in DOMAIN rows |-> rows[r][2]],
                                       members, 1)),
                 count |-> Cardinality(members)]]

\* ((last - first) / first) * 100 > threshold in floating point: a division
\* of a positive number by zero is inf, of zero by zero NaN.
GrowthAbove(first, last, threshold) ==
    IF first > 0 THEN 100 * (last - first) > threshold * first
    ELSE IF first < 0 THEN 100 * (last - first) < threshold * first
    ELSE last > 0

\* ((last - first) / first) * 100 < threshold
GrowthBelow(first, last, threshold) ==
    IF first > 0 THEN 100 * (last - first) < threshold * first
    ELSE IF first < 0 THEN 100 * (last - first) > threshold * first
    ELSE last < 0

\* trend_direction of the growth analysis
TrendDirection(first, last) ==
    IF GrowthAbove(first, last, 10) THEN "Strong Upward Trend"
    ELSE IF GrowthAbove(first, last, 2) THEN "Moderate Upward Trend"
    ELSE IF GrowthBelow(first, last, -10) THEN "Strong Downward Trend"
    ELSE IF GrowthBelow(first, last, -2) THEN "Moderate Downward Trend"
    ELSE "Stable/Flat Trend"

\* recent_direction of the last six periods
RecentDirection(first, last) ==
    IF GrowthAbove(first, last, 5) THEN "Accelerating"
    ELSE IF GrowthBelow(first, last, -5) THEN "Declining"
    ELSE "Stable"

TailN_FromStart(seq, n) ==
    SubSeq(seq, 1, IF Len(seq) > n THEN n ELSE Len(seq))

\* tail(n)
TailN(seq, n) ==
    SubSeq(seq, IF Len(seq) > n THEN Len(seq) - n + 1 ELSE 1, Len(seq))

\* `if len(grouped) >= 3`: the growth analysis is written
HasGrowthAnalysis_FromTwo(n) == n >= 2

HasGrowthAnalysis(n) == n >= 3

\* `if len(grouped) >= 6`: the recent trend is written
HasRecentTrend(n) == n >= 6

\* `completeness < 90` of completeness = (valid_count / original_count) * 100;
\* the quotient of two row counts times 100 is below 90.0 in floating point
\* exactly when it is so in the rationals.
LowCompleteness_AtNinety(valid_count, original_count) ==
    valid_count * 100 =< 90 * original_count

LowCompleteness(valid_count, original_count) ==
    valid_count * 100 < 90 * original_count

\* TrendAnalysisTool._run of the agentic_ai package once a dataset is
\* there.  The average growth rate and the standard deviation are not
\* computed; overall and recent growth are given by their first and last
\* sums.
TrendAnalysis(df, date_column, value_column, frequency) ==
    IF ~HasColumn(df, date_column)
    THEN [kind |-> "ERROR: Date column not found", available |-> df.cols]
    ELSE IF ~HasColumn(df, value_column)
    THEN [kind |-> "ERROR: Value column not found", available |-> df.cols]
    ELSE
    LET dc == ColumnIndex(df, date_column)
        vc == ColumnIndex(df, value_column)
        temp_df == [r \in DOMAIN df.rows |->
                       <<ToDatetime(df, dc, df.rows[r][dc]), df.rows[r][vc]>>]
        dated == SelectIdx(temp_df,
                           {r \in DOMAIN temp_df : temp_df[r][1] # NaN}, 1)
        numbered == [r \in DOMAIN dated |->
                        <<dated[r][1], ToNumeric(dated[r][2])>>]
        valid == SelectIdx(numbered,
                           {r \in DOMAIN numbered : numbered[r][2] # NaN}, 1)
    IN  IF dated = <<>>
        THEN [kind |-> "ERROR: No valid dates found"]
        ELSE IF valid = <<>>
        THEN [kind |-> "ERROR: No valid numeric values found"]
        ELSE IF frequency \notin {"D", "M", "Q", "Y"}
        THEN [kind |-> "ERROR: Invalid frequency"]
        ELSE
        LET grouped == Grouped(valid, frequency)
            n == Len(grouped)
            dates == [r \in DOMAIN valid |-> valid[r][1]]
            sums == [k \in DOMAIN grouped |-> grouped[k].sum]
            recent_data == TailN(sums, 6)
        IN  [kind |-> "TREND ANALYSIS REPORT",
             date_range |-> <<Min(dates), Max(dates)>>,
             total_periods |-> n,
             trend_data |-> TailN(grouped, 20),
             total_sum |-> Sum(sums),
             growth |->
                 IF HasGrowthAnalysis(n)
                 THEN [run |-> TRUE, first_period |-> sums[1],
                       last_period |-> sums[n],
                       trend_direction |-> TrendDirection(sums[1], sums[n]),
                       max_value |-> Max(sums), min_value |-> Min(sums)]
                 ELSE NotRun,
             recent |->
                 IF HasRecentTrend(n)
                 THEN [run |-> TRUE, first |-> recent_data[1],
                       last |-> recent_data[6],
                       recent_direction |->
                           RecentDirection(recent_data[1], recent_data[6])]
                 ELSE NotRun,
             valid_count |-> Len(valid),
             original_count |-> Len(df.rows),
             low_completeness |-> LowCompleteness(Len(valid), Len(df.rows))]

\* ------------------------------------------------------------------ state

VARIABLES
    current_dataset,     \* data_tools.current_dataset
    dataset_metadata,    \* data_tools.dataset_metadata
    transformation_log,  \* data_tools.transformation_log
    imported_dataset,    \* current_dataset as bound in each importing module
    cleaned_data,        \* outputs/cleaned_data/<save_name>.csv
    log_file,            \* outputs/logs/transformation_log.md
    schema_map,          \* outputs/logs/schema_map.json and schema_map.md
    call,                \* the last tool call and its arguments
    result,              \* what that call returned
    applying             \* per caller, where its SafeExecuteTool._run stands

vars ==
    <<current_dataset, dataset_metadata, transformation_log, imported_dataset,
      cleaned_data, log_file, schema_map, call, result, applying>>

\* The modules that do "from .data_tools import current_dataset".
ImportingModules ==
    {"detect_outliers_tool", "trend_analysis_tool", "save_chart_tool"}

\* dataset_metadata = {}
NoMetadata == [empty |-> TRUE]

SaveNames == {"cleaned"}

Messages == {"Removed duplicate rows"}

\* pd.Timestamp.now(), whatever the clock reads.
Now == "timestamp"

NoFile == [absent |-> TRUE]

\* DataFrame.to_csv(output_path, index=False): the header line and one line
\* per row, with no index column.
ToCsv(df) == [header |-> df.cols, lines |-> df.rows]

\* f"Applied: {operation} | Shape: {original_shape} -> {current_dataset.shape}"
AppliedEntry(operation, original_shape, new_shape) ==
    [kind |-> "Applied", operation |-> operation, before |-> original_shape,
     after |-> new_shape]

\* f"**{timestamp}:** {message}"
LoggedEntry(timestamp, message) ==
    [kind |-> "Logged", timestamp |-> timestamp, message |-> message]

\* The list replaced by the new entry instead of extended.
LogAppend_Overwrite(log, entry) == <<entry>>

\* transformation_log.append(log_entry)
LogAppend(log, entry) == Append(log, entry)

\* f.write(f"- {log_entry}\n") on a file opened for append
FileAppendLine(file, entry) == Append(file, [bullet |-> "- ", text |-> entry])

\* The module-level names of data_tools.py and the output directory after
\* import.
\* The callers whose SafeExecuteTool._run may be under way at once, and a
\* caller with none under way.
Callers == {"caller 1", "caller 2"}

Idle == [pc |-> "idle"]

InitStore ==
    /\ current_dataset = None
    /\ dataset_metadata = NoMetadata
    /\ transformation_log = <<>>
    /\ imported_dataset = [m \in ImportingModules |-> None]
    /\ cleaned_data = [n \in SaveNames |-> NoFile]
    /\ log_file = <<>>
    /\ schema_map = [json |-> NoFile, md |-> NoFile]
    /\ applying = [c \in Callers |-> Idle]

Init ==
    /\ InitStore
    /\ call = [tool |-> "none"]
    /\ result = [kind |-> "none"]

\* ------------------------------------------------------------- ReadCSVTool

NumCombinations == Len(encodings) * Len(separators)

\* The loop ended at the first parse that does not raise, however many
\* columns it has.
RECURSIVE TryCombinations_FirstParse(_, _, _)
TryCombinations_FirstParse(file_path, k, dataset) ==
    IF k >= NumCombinations
    THEN [dataset_loaded |-> FALSE, current_dataset |-> dataset]
    ELSE LET encoding == encodings[(k \div Len(separators)) + 1]
             sep == separators[(k % Len(separators)) + 1]
             parsed == ReadCsv(file_path, encoding, sep)
         IN  IF parsed.raised
             THEN TryCombinations_FirstParse(file_path, k + 1, dataset)
             ELSE [dataset_loaded |-> TRUE, current_dataset |-> parsed.df]

\* The loop of ReadCSVTool._run from its k-th (0-based) combination on,
\* encodings outermost: every parse that does not raise is assigned to
\* current_dataset, and the first of more than one column ends the loop
\* with dataset_loaded set.
RECURSIVE TryCombinations(_, _, _)
TryCombinations(file_path, k, dataset) ==
    IF k >= NumCombinations
    THEN [dataset_loaded |-> FALSE, current_dataset |-> dataset]
    ELSE LET encoding == encodings[(k \div Len(separators)) + 1]
             sep == separators[(k % Len(separators)) + 1]
             parsed == ReadCsv(file_path, encoding, sep)
         IN  IF parsed.raised
             THEN TryCombinations(file_path, k + 1, dataset)
             ELSE IF Shape(parsed.df)[2] > 1
             THEN [dataset_loaded |-> TRUE, current_dataset |-> parsed.df]
             ELSE TryCombinations(file_path, k + 1, parsed.df)

ReadCSVTool(file_path) ==
    LET tried == TryCombinations(file_path, 0, current_dataset)
        last == IF tried.dataset_loaded
                THEN [raised |-> FALSE, df |-> tried.current_dataset]
                ELSE ReadCsvDefault(file_path)
    IN  /\ call' = [tool |-> "ReadCSVTool", file_path |-> file_path]
        /\ transformation_log' = <<>>
        /\ UNCHANGED applying
        /\ IF last.raised
           THEN /\ current_dataset' = tried.current_dataset
                /\ dataset_metadata' = dataset_metadata
                /\ result' = [kind |-> "ERROR loading"]
           ELSE /\ current_dataset' = CleanColumns(last.df)
                /\ dataset_metadata' =
                       [file_path |-> file_path,
                        file_name |-> Basename(file_path),
                        loaded_at |-> Now,
                        original_shape |-> Shape(last.df)]
                /\ result' = [kind |-> "DATASET LOADED",
                              rows |-> Shape(last.df)[1],
                              columns |-> Shape(last.df)[2]]
        /\ UNCHANGED <<imported_dataset, cleaned_data, log_file, schema_map>>

\* --------------------------------------------------------- SafeExecuteTool

\* What the file system does to makedirs and to_csv; a save that raises
\* leaves the file as it was.
SaveOutcomes == {"saved", "makedirs raises", "to_csv raises"}

SafeExecuteTool(operation, save_name) ==
    /\ UNCHANGED applying
    /\ call' = [tool |-> "SafeExecuteTool", operation |-> operation,
                save_name |-> save_name]
    /\ UNCHANGED <<dataset_metadata, imported_dataset, log_file, schema_map>>
    /\ IF current_dataset = None
       THEN /\ result' = [kind |-> "ERROR: No dataset loaded."]
            /\ UNCHANGED <<current_dataset, transformation_log, cleaned_data>>
       ELSE IF operation \in BlockedOperations
       THEN /\ result' = [kind |-> "UNSAFE OPERATION BLOCKED"]
            /\ UNCHANGED <<current_dataset, transformation_log, cleaned_data>>
       ELSE LET original_shape == Shape(current_dataset)
                ev == Eval(current_dataset, operation)
            IN  IF ev.returns \in Exceptions
                THEN /\ result' = [kind |-> "EXECUTION ERROR",
                                   detail |-> ev.returns]
                     /\ current_dataset' =
                            DatasetAfterEval(current_dataset, ev.df)
                     /\ UNCHANGED <<transformation_log, cleaned_data>>
                ELSE IF ev.returns # "DataFrame"
                THEN /\ result' = [kind |-> "Operation returned, not DataFrame",
                                   detail |-> ev.returns]
                     /\ current_dataset' =
                            DatasetAfterEval(current_dataset, ev.df)
                     /\ UNCHANGED <<transformation_log, cleaned_data>>
                ELSE /\ Len(transformation_log) < MaxLog
                     /\ current_dataset' = ev.value
                     /\ transformation_log' =
                            LogAppend(transformation_log,
                                      AppliedEntry(operation, original_shape,
                                                   Shape(ev.value)))
                     /\ \E outcome \in SaveOutcomes :
                          IF outcome = "saved"
                          THEN /\ cleaned_data' =
                                      [cleaned_data EXCEPT
                                          ![save_name] = ToCsv(ev.value)]
                               /\ result' = [kind |-> "EXECUTED",
                                             original_shape |-> original_shape,
                                             new_shape |-> Shape(ev.value),
                                             saved_to |-> save_name]
                          ELSE /\ cleaned_data' = cleaned_data
                               /\ result' = [kind |-> "EXECUTION ERROR",
                                             detail |-> outcome]

\* ------------------------------------ SafeExecuteTool._run, step by step

\* The module has no lock: a _run of one caller reads and assigns the
\* module's globals between the steps of another's.  The steps are the
\* reads and writes of the globals, in the order of the code.

InFlight == {c \in Callers : applying[c] # Idle}

\* Lines 194-206: the checks, and safe_env['df'] = current_dataset.copy().
BeginApply(c, operation, save_name) ==
    /\ applying[c] = Idle
    /\ call' = [tool |-> "SafeExecuteTool", operation |-> operation,
                save_name |-> save_name]
    /\ UNCHANGED <<current_dataset, dataset_metadata, transformation_log,
                   imported_dataset, cleaned_data, log_file, schema_map>>
    /\ IF current_dataset = None
       THEN /\ result' = [kind |-> "ERROR: No dataset loaded."]
            /\ applying' = applying
       ELSE IF operation \in BlockedOperations
       THEN /\ result' = [kind |-> "UNSAFE OPERATION BLOCKED"]
            /\ applying' = applying
       ELSE /\ Len(transformation_log) + Cardinality(InFlight) < MaxLog
            /\ result' = result
            /\ applying' = [applying EXCEPT
                                ![c] = [pc |-> "copied",
                                        operation |-> operation,
                                        save_name |-> save_name,
                                        df |-> current_dataset]]

\* Line 219: original_shape = current_dataset.shape.
ReadShape(c) ==
    /\ applying[c].pc = "copied"
    /\ applying' = [applying EXCEPT
                        ![c] = [pc |-> "shaped",
                                operation |-> applying[c].operation,
                                save_name |-> applying[c].save_name,
                                df |-> applying[c].df,
                                original_shape |-> Shape(current_dataset)]]
    /\ UNCHANGED <<current_dataset, dataset_metadata, transformation_log,
                   imported_dataset, cleaned_data, log_file, schema_map,
                   call, result>>

\* Lines 222-227: eval on the copy, and current_dataset = result_df.
EvalAndCommit(c) ==
    /\ applying[c].pc = "shaped"
    /\ UNCHANGED <<dataset_metadata, transformation_log, imported_dataset,
                   cleaned_data, log_file, schema_map, call>>
    /\ LET ev == Eval(applying[c].df, applying[c].operation)
       IN  IF ev.returns \in Exceptions
           THEN /\ result' = [kind |-> "EXECUTION ERROR",
                              detail |-> ev.returns]
                /\ current_dataset' = current_dataset
                /\ applying' = [applying EXCEPT ![c] = Idle]
           ELSE IF ev.returns # "DataFrame"
           THEN /\ result' = [kind |-> "Operation returned, not DataFrame",
                              detail |-> ev.returns]
                /\ current_dataset' = current_dataset
                /\ applying' = [applying EXCEPT ![c] = Idle]
           ELSE /\ result' = result
                /\ current_dataset' = ev.value
                /\ applying' = [applying EXCEPT
                                    ![c] = [pc |-> "committed",
                                            operation |-> applying[c].operation,
                                            save_name |-> applying[c].save_name,
                                            df |-> applying[c].df,
                                            original_shape |->
                                                applying[c].original_shape,
                                            result_df |-> ev.value]]

\* Lines 230-231: the ledger record, with current_dataset.shape as the
\* new shape.
AppendLog(c) ==
    /\ applying[c].pc = "committed"
    /\ transformation_log' =
           LogAppend(transformation_log,
                     AppliedEntry(applying[c].operation,
                                  applying[c].original_shape,
                                  Shape(current_dataset)))
    /\ applying' = [applying EXCEPT ![c].pc = "logged"]
    /\ UNCHANGED <<current_dataset, dataset_metadata, imported_dataset,
                   cleaned_data, log_file, schema_map, call, result>>

\* Lines 234-247: current_dataset.to_csv(output_path) and the return.
SaveCleaned(c) ==
    /\ applying[c].pc = "logged"
    /\ applying' = [applying EXCEPT ![c] = Idle]
    /\ UNCHANGED <<current_dataset, dataset_metadata, transformation_log,
                   imported_dataset, log_file, schema_map, call>>
    /\ \E outcome \in SaveOutcomes :
          IF outcome = "saved"
          THEN /\ cleaned_data' =
                      [cleaned_data EXCEPT
                          ![applying[c].save_name] = ToCsv(current_dataset)]
               /\ result' = [kind |-> "EXECUTED",
                             original_shape |-> applying[c].original_shape,
                             new_shape |-> Shape(current_dataset),
                             saved_to |-> applying[c].save_name]
          ELSE /\ cleaned_data' = cleaned_data
               /\ result' = [kind |-> "EXECUTION ERROR", detail |-> outcome]

\* --------------------------------------------------- LogTransformationTool

LogOutcomes == {"logged", "makedirs raises", "open raises"}

LogTransformationTool(message) ==
    /\ UNCHANGED applying
    /\ call' = [tool |-> "LogTransformationTool", message |-> message]
    /\ UNCHANGED <<current_dataset, dataset_metadata, imported_dataset,
                   cleaned_data, schema_map>>
    /\ \E outcome \in LogOutcomes :
         IF outcome = "makedirs raises"
         THEN /\ result' = [kind |-> "ERROR logging transformation",
                            detail |-> outcome]
              /\ UNCHANGED <<transformation_log, log_file>>
         ELSE /\ Len(transformation_log) < MaxLog
              /\ transformation_log' =
                     LogAppend(transformation_log, LoggedEntry(Now, message))
              /\ IF outcome = "open raises"
                 THEN /\ result' = [kind |-> "ERROR logging transformation",
                                    detail |-> outcome]
                      /\ log_file' = log_file
                 ELSE /\ Len(log_file) < MaxLog
                      /\ result' = [kind |-> "LOGGED", message |-> message]
                      /\ log_file' =
                             FileAppendLine(log_file, LoggedEntry(Now, message))

\* ------------------------------------------- the tools that only read

InspectDataTool(aspect) ==
    /\ UNCHANGED applying
    /\ call' = [tool |-> "InspectDataTool", aspect |-> aspect]
    /\ result' = IF current_dataset = None
                 THEN [kind |-> "ERROR: No dataset loaded. Use ReadCSVTool first."]
                 ELSE InspectData(current_dataset, aspect)
    /\ UNCHANGED <<current_dataset, dataset_metadata, transformation_log,
                   imported_dataset, cleaned_data, log_file, schema_map>>

ViewColumnTool(column_name) ==
    /\ UNCHANGED applying
    /\ call' = [tool |-> "ViewColumnTool", column_name |-> column_name]
    /\ IF current_dataset = None
       THEN /\ result' = [kind |-> "ERROR: No dataset loaded."]
            /\ current_dataset' = current_dataset
       ELSE /\ result' = ViewColumn(current_dataset, column_name)
            /\ current_dataset' =
                   IF HasColumn(current_dataset, column_name)
                   THEN DatasetAfterViewColumn(current_dataset, column_name)
                   ELSE current_dataset
    /\ UNCHANGED <<dataset_metadata, transformation_log, imported_dataset,
                   cleaned_data, log_file, schema_map>>

CalculateStatsTool(stat_type, parameters) ==
    /\ UNCHANGED applying
    /\ call' = [tool |-> "CalculateStatsTool", stat_type |-> stat_type,
                parameters |-> parameters]
    /\ result' = IF current_dataset = None
                 THEN [kind |-> "ERROR: No dataset loaded."]
                 ELSE CalculateStats(current_dataset, stat_type, parameters)
    /\ UNCHANGED <<current_dataset, dataset_metadata, transformation_log,
                   imported_dataset, cleaned_data, log_file, schema_map>>

\* What the file system does to makedirs and to the two open() calls of
\* SaveSchemaTool; schema_map.json is written before schema_map.md is opened.
SchemaOutcomes == {"saved", "makedirs raises", "schema_map.md raises"}

SaveSchemaTool ==
    /\ UNCHANGED applying
    /\ call' = [tool |-> "SaveSchemaTool"]
    /\ UNCHANGED <<current_dataset, dataset_metadata, transformation_log,
                   imported_dataset, cleaned_data, log_file>>
    /\ IF current_dataset = None
       THEN /\ result' = [kind |-> "ERROR: No dataset loaded."]
            /\ schema_map' = schema_map
       ELSE LET schema_info ==
                    SchemaInfo(current_dataset, dataset_metadata, Now)
            IN  \E outcome \in SchemaOutcomes :
                  CASE outcome = "saved" ->
                          /\ schema_map' =
                                 [json |-> schema_info,
                                  md |-> SchemaMarkdown(current_dataset,
                                                        schema_info)]
                          /\ result' = [kind |-> "ENHANCED SCHEMA SAVED"]
                    [] outcome = "schema_map.md raises" ->
                          /\ schema_map' =
                                 [schema_map EXCEPT !.json = schema_info]
                          /\ result' = [kind |-> "ERROR saving schema",
                                        detail |-> outcome]
                    [] OTHER ->
                          /\ schema_map' = schema_map
                          /\ result' = [kind |-> "ERROR saving schema",
                                        detail |-> outcome]

\* ------------------------------------------------ the importing modules

\* The tools of the other modules read the name current_dataset of their own
\* module, which "from .data_tools import current_dataset" bound once, when
\* the module was imported.
ReadOnlyTool(tool, module) ==
    /\ UNCHANGED applying
    /\ call' = [tool |-> tool]
    /\ result' = IF imported_dataset[module] = None
                 THEN [kind |-> "ERROR: No dataset loaded."]
                 ELSE [kind |-> "REPORT", dataset |-> imported_dataset[module]]
    /\ UNCHANGED <<current_dataset, dataset_metadata, transformation_log,
                   imported_dataset, cleaned_data, log_file, schema_map>>

DetectOutliersTool == ReadOnlyTool("DetectOutliersTool", "detect_outliers_tool")

TrendAnalysisTool == ReadOnlyTool("TrendAnalysisTool", "trend_analysis_tool")

SaveChartTool == ReadOnlyTool("SaveChartTool", "save_chart_tool")

\* ---------------------------------------------------------- specification

\* The paths the caller loads from under Spec.
LoadPaths == {PathSales, PathLatinNames, PathMissing}

Next ==
    \/ \E file_path \in LoadPaths : ReadCSVTool(file_path)
    \/ \E operation \in Operations, save_name \in SaveNames :
          SafeExecuteTool(operation, save_name)
    \/ \E message \in Messages : LogTransformationTool(message)
    \/ DetectOutliersTool
    \/ TrendAnalysisTool
    \/ SaveChartTool

Spec == Init /\ [][Next]_vars

\* The arguments the caller sends to the inspection tools.
Aspects == {"overview", "missing", "types", "duplicates", "summary"}

ColumnZ == <<"z">>

ViewColumns == {ColumnA, ColumnZ}

ParamsAB == <<"a", ",", " ", "b", ",", "c", "o", "u", "n", "t">>

StatRequests ==
    {[stat_type |-> "describe", parameters |-> <<>>],
     [stat_type |-> "correlation", parameters |-> <<>>],
     [stat_type |-> "groupby", parameters |-> ParamsAB],
     [stat_type |-> "value_counts", parameters |-> ColumnA],
     [stat_type |-> "groupby", parameters |-> <<>>]}

\* The operation texts the caller sends between inspections.
InspectOperations == {OpDropna, OpDropB}

\* Loading, transforming and inspecting, the tools of the Data Inspector,
\* the Data Cleaner and the Insights Analyst.
NextInspect ==
    \/ \E file_path \in LoadPaths : ReadCSVTool(file_path)
    \/ \E operation \in InspectOperations, save_name \in SaveNames :
          SafeExecuteTool(operation, save_name)
    \/ \E aspect \in Aspects : InspectDataTool(aspect)
    \/ \E column_name \in ViewColumns : ViewColumnTool(column_name)
    \/ \E request \in StatRequests :
          CalculateStatsTool(request.stat_type, request.parameters)
    \/ SaveSchemaTool
    \/ DetectOutliersTool
    \/ TrendAnalysisTool

SpecInspect == Init /\ [][NextInspect]_vars

\* The operation texts the caller sends between loads.
LoadOperations == {OpDropDuplicates, OpDropna, OpDropB}

\* Loading from every path, with transformations in between: the tools of
\* the Data Inspector and the Data Cleaner.
NextLoad ==
    \/ \E file_path \in FilePaths : ReadCSVTool(file_path)
    \/ \E operation \in LoadOperations, save_name \in SaveNames :
          SafeExecuteTool(operation, save_name)

SpecLoad == Init /\ [][NextLoad]_vars

\* ------------------------------------------- the safety check on its own

\* The transformation forms the cleaning agent is told to use, one text each.
OpFillna == <<"f", "i", "l", "l", "n", "a", "(", "0", ")">>

OpRenameX ==
    <<"r", "e", "n", "a", "m", "e", "(", "c", "o", "l", "u", "m", "n", "s",
      "=", "{", "'", "a", "'", ":", "'", "x", "'", "}", ")">>

OpAstype == <<"a", "s", "t", "y", "p", "e", "(", "s", "t", "r", ")">>

OpReplace == <<"r", "e", "p", "l", "a", "c", "e", "(", "1", ",", " ", "2", ")">>

OpStrUpper ==
    <<"a", "s", "s", "i", "g", "n", "(", "a", "=", "d", "f", "[", "'", "a",
      "'", "]", ".", "s", "t", "r", ".", "u", "p", "p", "e", "r", "(", ")",
      ")">>

OpToDatetime ==
    <<"a", "s", "s", "i", "g", "n", "(", "a", "=", "p", "d", ".", "t", "o",
      "_", "d", "a", "t", "e", "t", "i", "m", "e", "(", "d", "f", "[", "'",
      "a", "'", "]", ")", ")">>

OpApply ==
    <<"a", "p", "p", "l", "y", "(", "l", "a", "m", "b", "d", "a", " ", "x",
      ":", " ", "x", ")">>

AllowListedForms ==
    {OpDropDuplicates, OpDropna, OpFillna, OpRenameX, OpDropB, OpAstype,
     OpReplace, OpStrUpper, OpToDatetime, OpApply}

\* Short texts over a few characters, among them "os." and "__" in every
\* letter case and at every position.
SafetyAlphabet == {"o", "S", ".", "_"}

GeneratedTexts == UNION {[1..n -> SafetyAlphabet] : n \in 1..MaxTextLen}

SafetyTexts == GeneratedTexts \cup AllowListedForms \cup Operations

\* An operation text has arrived at the safety check; nothing is decided.
InitSafety ==
    /\ InitStore
    /\ \E operation \in SafetyTexts :
          /\ call = [tool |-> "SafeExecuteTool", operation |-> operation]
          /\ result = [kind |-> "none"]

\* Lines 199-224 of SafeExecuteTool._run on a text: blocked, or handed to
\* eval.
SafetyCheck ==
    /\ UNCHANGED applying
    /\ result.kind = "none"
    /\ call.tool = "SafeExecuteTool"
    /\ result' = IF IsDangerous(call.operation)
                 THEN [kind |-> "UNSAFE OPERATION BLOCKED"]
                 ELSE [kind |-> "eval"]
    /\ UNCHANGED <<current_dataset, dataset_metadata, transformation_log,
                   imported_dataset, cleaned_data, log_file, schema_map, call>>

NextSafety == SafetyCheck

SpecSafety == InitSafety /\ [][NextSafety]_vars

\* -------------------------------------------- the analysis tools on their own

ColumnT == <<"t">>
ColumnN == <<"n">>

\* A table around a column of values: "a" holds the values, "t" a text and
\* "n" nothing in every row.
TableAround(values) ==
    DataFrame(<<ColumnA, ColumnT, ColumnN>>,
              [r \in DOMAIN values |-> <<values[r], OtherText + 1, NaN>>])

SeriesValues == {1, 2, 3, 4, 100}

\* A column whose largest value is its upper IQR bound.
BoundaryColumns == {<<1, 2, 3, 4, 7>>}

BinaryColumns == UNION {[1..n -> {0, 1}] : n \in 0..MaxBinaryLen}

SeriesColumns == UNION {[1..n -> SeriesValues] : n \in 1..MaxSeriesLen}

SparseColumns == UNION {[1..n -> {NaN, 1, 100}] : n \in 1..MaxSparseLen}

Methods == {"zscore", "iqr", "both", "mad"}

\* The calls outlier detection is given: every column with both methods,
\* the sparse columns with each method, and columns that are text, empty
\* of values or absent.
OutlierCalls ==
    {[tool |-> "DetectOutliersTool", dataset |-> TableAround(values),
      column_name |-> ColumnA, method |-> "both"] :
        values \in BinaryColumns \cup SeriesColumns \cup BoundaryColumns}
    \cup
    {[tool |-> "DetectOutliersTool", dataset |-> TableAround(values),
      column_name |-> column_name, method |-> method] :
        values \in SparseColumns,
        column_name \in {ColumnA, ColumnT, ColumnN, ColumnZ},
        method \in Methods}

\* Columns of many outliers: the values 12 down to 1, or 10 down to 1,
\* before a run of zeros long enough to hold both quartiles.
ZerosAfter(front, zeros) ==
    [i \in 1..(Len(front) + zeros) |-> IF i =< Len(front) THEN front[i] ELSE 0]

ManyOutlierColumns ==
    {ZerosAfter([i \in 1..12 |-> 13 - i], 40),
     ZerosAfter([i \in 1..10 |-> 11 - i], 40)}

ManyOutlierCalls ==
    {[tool |-> "DetectOutliersTool", dataset |-> TableAround(values),
      column_name |-> ColumnA, method |-> method] :
        values \in ManyOutlierColumns, method \in Methods}

\* The calls of the agentic_ai_system package's tool, which takes a column
\* name and nothing else.
SystemOutlierCalls ==
    {[tool |-> "DetectOutliersTool of agentic_ai_system",
      dataset |-> TableAround(values), column_name |-> column_name] :
        values \in SparseColumns \cup ManyOutlierColumns
                      \cup BoundaryColumns,
        column_name \in {ColumnA, ColumnT, ColumnN, ColumnZ}}

ColumnD == <<"d">>
ColumnE == <<"e">>

DateCells == {NaN, DateText + 20230115, DateText + 20230220, OtherText + 5}

ValueCells == {NaN, 1, 2, OtherText + 5}

\* Tables with a column "d" of dates as text, a column "a" of values and a
\* column "e" of whole numbers.
TrendTables ==
    {DataFrame(<<ColumnD, ColumnA, ColumnE>>,
               [r \in DOMAIN cells |-> <<cells[r][1], cells[r][2], r>>]) :
        cells \in UNION {[1..n -> DateCells \X ValueCells] :
                            n \in 0..MaxTrendRows}}

TrendArguments ==
    {<<ColumnD, ColumnA, "M">>, <<ColumnZ, ColumnA, "M">>,
     <<ColumnD, ColumnZ, "M">>, <<ColumnD, ColumnA, "W">>,
     <<ColumnE, ColumnA, "D">>, <<ColumnD, ColumnA, "Q">>,
     <<ColumnD, ColumnA, "Y">>}

\* One date in each of eight successive months.
MonthlyDates ==
    <<20230115, 20230210, 20230305, 20230401, 20230501, 20230601, 20230701,
      20230801>>

FirstSums == {0, 10, 100}

MiddleSums == {20, 100}

LastSums == {0, 10, 15, 20, 90, 95, 98, 100, 102, 105, 110, 120}

\* Tables of one row a month: the first and the last value range over the
\* growth thresholds, the values between over two.
MonthlyTables ==
    {DataFrame(<<ColumnD, ColumnA, ColumnE>>,
               [r \in 1..(Len(middle) + 2) |->
                   <<DateText + MonthlyDates[r],
                     IF r = 1 THEN first
                     ELSE IF r = Len(middle) + 2 THEN last
                     ELSE middle[r - 1],
                     r>>]) :
        first \in FirstSums, last \in LastSums,
        middle \in UNION {[1..n -> MiddleSums] : n \in 0..MaxMiddlePeriods}}

\* Tables of up to MaxCompletenessRows rows of which the first few have no
\* date.
CompletenessTables ==
    {DataFrame(<<ColumnD, ColumnA, ColumnE>>,
               [r \in 1..total |->
                   <<IF r =< missing THEN NaN ELSE DateText + 20230115,
                     1, r>>]) :
        total \in 1..MaxCompletenessRows, missing \in 0..MaxCompletenessRows}

TrendCalls ==
    {[tool |-> "TrendAnalysisTool", dataset |-> df, date_column |-> args[1],
      value_column |-> args[2], frequency |-> args[3]] :
        df \in TrendTables, args \in TrendArguments}
    \cup
    {[tool |-> "TrendAnalysisTool", dataset |-> df, date_column |-> ColumnD,
      value_column |-> ColumnA, frequency |-> frequency] :
        df \in MonthlyTables, frequency \in {"M", "Q"}}
    \cup
    {[tool |-> "TrendAnalysisTool", dataset |-> df, date_column |-> ColumnD,
      value_column |-> ColumnA, frequency |-> "M"] :
        df \in CompletenessTables}

\* A call has arrived, and the tool's current_dataset names call.dataset.
InitAnalysis ==
    /\ InitStore
    /\ call \in OutlierCalls \cup ManyOutlierCalls \cup SystemOutlierCalls
                  \cup TrendCalls
    /\ result = [kind |-> "none"]

RunDetectOutliers ==
    /\ UNCHANGED applying
    /\ result.kind = "none"
    /\ call.tool = "DetectOutliersTool"
    /\ result' = DetectOutliers(call.dataset, call.column_name, call.method)
    /\ UNCHANGED <<current_dataset, dataset_metadata, transformation_log,
                   imported_dataset, cleaned_data, log_file, schema_map, call>>

RunDetectOutliersSystem ==
    /\ UNCHANGED applying
    /\ result.kind = "none"
    /\ call.tool = "DetectOutliersTool of agentic_ai_system"
    /\ result' = DetectOutliersSystem(call.dataset, call.column_name)
    /\ UNCHANGED <<current_dataset, dataset_metadata, transformation_log,
                   imported_dataset, cleaned_data, log_file, schema_map, call>>

RunTrendAnalysis ==
    /\ UNCHANGED applying
    /\ result.kind = "none"
    /\ call.tool = "TrendAnalysisTool"
    /\ result' = TrendAnalysis(call.dataset, call.date_column,
                               call.value_column, call.frequency)
    /\ UNCHANGED <<current_dataset, dataset_metadata, transformation_log,
                   imported_dataset, cleaned_data, log_file, schema_map, call>>

NextAnalysis ==
    \/ RunDetectOutliers
    \/ RunDetectOutliersSystem
    \/ RunTrendAnalysis

SpecAnalysis == InitAnalysis /\ [][NextAnalysis]_vars

\* --------------------------------------------- two callers of the executor

\* Two callers apply dropna() and drop(columns=['b']) to the sales table,
\* which is loaded while no apply is under way.
LoadWhenIdle(file_path) ==
    /\ InFlight = {}
    /\ ReadCSVTool(file_path)

NextConcurrent ==
    \/ \E file_path \in {PathSales} : LoadWhenIdle(file_path)
    \/ \E c \in Callers, operation \in InspectOperations,
           save_name \in SaveNames :
          BeginApply(c, operation, save_name)
    \/ \E c \in Callers : ReadShape(c)
    \/ \E c \in Callers : EvalAndCommit(c)
    \/ \E c \in Callers : AppendLog(c)
    \/ \E c \in Callers : SaveCleaned(c)

SpecConcurrent == Init /\ [][NextConcurrent]_vars

\* ----------------------------------------------------------------- claims

IsPrefix(s, t) == Len(s) =< Len(t) /\ SubSeq(t, 1, Len(s)) = s

IsApplied(entry) == entry.kind = "Applied"

\* The records SafeExecuteTool wrote, in ledger order.
AppliedRecords == SelectSeq(transformation_log, IsApplied)

\* text contains term when letter case is ignored.
HasTermAnyCase(text, term) ==
    \E at \in 0..(Len(text) - Len(term)) :
        \A j \in 1..Len(term) : LowerChar(text[at + j]) = term[j]

HasDenyTerm(text) ==
    \E k \in DOMAIN dangerous_terms : HasTermAnyCase(text, dangerous_terms[k])

DeniedOperations == {operation \in Operations : HasDenyTerm(operation)}

\* C1: every SafeExecuteTool call is all-or-nothing: it returns EXECUTED
\* with the table replaced, exactly one ledger entry appended and the cleaned
\* file written, or it returns something else and the table and the ledger
\* are what they were before the call.
C1_AllOrNothing ==
    [][call'.tool = "SafeExecuteTool" =>
          IF result'.kind = "EXECUTED"
          THEN /\ Len(transformation_log') = Len(transformation_log) + 1
               /\ IsPrefix(transformation_log, transformation_log')
               /\ cleaned_data'[call'.save_name] = ToCsv(current_dataset')
          ELSE /\ current_dataset' = current_dataset
               /\ transformation_log' = transformation_log]_vars

ReadOnlyTools == {"DetectOutliersTool", "TrendAnalysisTool", "SaveChartTool"}

\* C2: a read-only consumer called while data_tools holds a table works on
\* that table, never on an earlier one and never on "no dataset".
C2_ConsumersReadCurrentTable ==
    (call.tool \in ReadOnlyTools /\ current_dataset # None) =>
        (result.kind = "REPORT" /\ result.dataset = current_dataset)

\* C3: with a table loaded, an operation text that contains a deny-list term
\* in any letter case gets the blocked result, and the table, the ledger and
\* the cleaned-data files are unchanged by the call.
C3_DeniedOperationBlocked ==
    [][(/\ call'.tool = "SafeExecuteTool"
        /\ current_dataset # None
        /\ call'.operation \in DeniedOperations) =>
          /\ result'.kind = "UNSAFE OPERATION BLOCKED"
          /\ UNCHANGED <<current_dataset, transformation_log, cleaned_data>>]_vars

\* C3 witness: a term written in capitals was blocked while a table, a
\* ledger entry and a cleaned file existed.
C3_Witness ==
    /\ call.tool = "SafeExecuteTool"
    /\ call.operation = OpEvalUpper
    /\ result.kind = "UNSAFE OPERATION BLOCKED"
    /\ current_dataset # None
    /\ transformation_log # <<>>
    /\ cleaned_data["cleaned"] # NoFile

\* C4: a ReadCSVTool call that returns an error leaves the table, the
\* metadata and the ledger as they were before the call.
C4_FailedLoadLeavesStore ==
    [][(call'.tool = "ReadCSVTool" /\ result'.kind = "ERROR loading") =>
          UNCHANGED <<current_dataset, dataset_metadata, transformation_log>>]_vars

\* C5: the ledger is append-only across load, apply and log operations: the
\* history at any point is a prefix of the history at any later point.
C5_LedgerAppendOnly ==
    [][IsPrefix(transformation_log, transformation_log')]_vars

\* C5, amended: SafeExecuteTool and LogTransformationTool (and the read-only
\* tools) leave the earlier history as a prefix of the later one; every
\* ReadCSVTool call empties the ledger.
C5_AppendOnlyBetweenLoads ==
    [][IF call'.tool = "ReadCSVTool"
       THEN transformation_log' = <<>>
       ELSE IsPrefix(transformation_log, transformation_log')]_vars

\* C5 witness: the ledger grew by an applied record and then a logged entry.
C5_Witness ==
    /\ Len(transformation_log) = 2
    /\ transformation_log[1].kind = "Applied"
    /\ transformation_log[2].kind = "Logged"

RECURSIVE IsSubsequence(_, _)
IsSubsequence(s, t) ==
    IF s = <<>> THEN TRUE
    ELSE IF t = <<>> THEN FALSE
    ELSE IF Head(s) = Head(t) THEN IsSubsequence(Tail(s), Tail(t))
    ELSE IsSubsequence(s, Tail(t))

\* C6: every transformation SafeExecuteTool has accepted has its line in the
\* durable log, in order.
C6_AcceptedAreDurable ==
    IsSubsequence(AppliedRecords, [j \in DOMAIN log_file |-> log_file[j].text])

\* C7: the shapes of the applied records chain: each after-shape is the next
\* before-shape, the first before-shape is the loaded table's shape and the
\* last after-shape is the current table's shape.
C7_ShapesChain ==
    LET A == AppliedRecords
    IN  A # <<>> =>
          /\ \A i \in 1..(Len(A) - 1) : A[i].after = A[i + 1].before
          /\ dataset_metadata # NoMetadata
          /\ A[1].before = dataset_metadata.original_shape
          /\ A[Len(A)].after = Shape(current_dataset)

\* The table a successful ReadCSVTool call on file_path makes current.
LoadedTable(file_path) ==
    LET tried == TryCombinations(file_path, 0, None)
    IN  CleanColumns(IF tried.dataset_loaded THEN tried.current_dataset
                     ELSE ReadCsvDefault(file_path).df)

\* The expressions of the applied records, evaluated in order from df.
RECURSIVE Replay(_, _)
Replay(df, records) ==
    IF records = <<>> THEN df
    ELSE Replay(Eval(df, Head(records).operation).value, Tail(records))

\* C8: replaying the ledger's expressions from the table as loaded gives the
\* current table.
C8_ReplayReproducesStore ==
    current_dataset # None =>
        /\ dataset_metadata # NoMetadata
        /\ Replay(LoadedTable(dataset_metadata.file_path), AppliedRecords)
              = current_dataset

\* C9: an accepted SafeExecuteTool call leaves the table its expression
\* evaluates to on the table before the call; a rejected or failed call
\* leaves the table as it was.
C9_IssueOrder ==
    [][(call'.tool = "SafeExecuteTool" /\ current_dataset # None) =>
          IF result'.kind = "EXECUTED"
          THEN current_dataset' =
                   Eval(current_dataset, call'.operation).value
          ELSE current_dataset' = current_dataset]_vars

\* C10: when the expression is evaluated and raises or returns something
\* that is not a DataFrame, the call reports the failure with its detail, and
\* the table, the ledger and the cleaned-data files are unchanged.
C10_FailedEvaluationLeavesStore ==
    [][(/\ call'.tool = "SafeExecuteTool"
        /\ current_dataset # None
        /\ call'.operation \notin DeniedOperations
        /\ Eval(current_dataset, call'.operation).returns # "DataFrame") =>
          /\ result'.kind \in
                {"EXECUTION ERROR", "Operation returned, not DataFrame"}
          /\ result'.detail = Eval(current_dataset, call'.operation).returns
          /\ UNCHANGED <<current_dataset, transformation_log, cleaned_data>>]_vars

\* C10 witness: an in-place dropna returned None on a table that has a row
\* with a missing cell, and that row is still in the table.
C10_Witness ==
    /\ call.tool = "SafeExecuteTool"
    /\ call.operation = OpDropnaInplace
    /\ result.kind = "Operation returned, not DataFrame"
    /\ current_dataset # None
    /\ Dropna(current_dataset) # current_dataset

\* The operations that read the table.
TableReaders ==
    {"InspectDataTool", "ViewColumnTool", "SafeExecuteTool",
     "CalculateStatsTool", "SaveSchemaTool", "DetectOutliersTool",
     "TrendAnalysisTool"}

NoDatasetErrors ==
    {"ERROR: No dataset loaded.",
     "ERROR: No dataset loaded. Use ReadCSVTool first."}

\* C11: as long as no ReadCSVTool call has returned success (the metadata,
\* which only a successful load writes, is still empty), every operation
\* that reads the table returns the "no dataset loaded" error and changes
\* neither the store nor a file.
C11_NoTableNoResult ==
    [][(dataset_metadata = NoMetadata /\ call'.tool \in TableReaders) =>
          /\ result'.kind \in NoDatasetErrors
          /\ UNCHANGED <<current_dataset, dataset_metadata, transformation_log,
                         cleaned_data, log_file, schema_map>>]_vars

\* C12: the safety check rejects a text if and only if the text, letter
\* case ignored, contains a deny-list term; every other text, and so every
\* allow-listed transformation form, is handed to evaluation.
C12_RejectedIffDenyTerm ==
    /\ \A form \in AllowListedForms : ~HasDenyTerm(form)
    /\ result.kind # "none" =>
          /\ result.kind = "UNSAFE OPERATION BLOCKED"
                <=> HasDenyTerm(call.operation)
          /\ result.kind = "eval" <=> ~HasDenyTerm(call.operation)

\* C12 witness: an allow-listed form (parse as datetime, whose text has a
\* single underscore and a dot) was handed to evaluation.
C12_Witness ==
    /\ call.operation = OpToDatetime
    /\ result.kind = "eval"

\* name without the whitespace around it and with a space for every line
\* break left inside.
TrimmedName(name) ==
    LET inked == {i \in DOMAIN name : name[i] \notin Whitespace}
    IN  IF inked = {} THEN <<>>
        ELSE LET from == CHOOSE i \in inked : \A j \in inked : i =< j
                 to == CHOOSE i \in inked : \A j \in inked : j =< i
             IN  [i \in 1..(to - from + 1) |->
                    IF name[from + i - 1] \in {"\n", "\r"} THEN " "
                    ELSE name[from + i - 1]]

\* The table the file at file_path holds: its header names, trimmed, over
\* its data lines.
SourceTable(file_path) ==
    LET f == FileAt(file_path)
    IN  DataFrame([c \in DOMAIN f.header |-> TrimmedName(f.header[c])],
                  f.lines)

\* C13: when ReadCSVTool returns success the current table is the table of
\* the given file and of nothing else, the metadata names that file and
\* has the current table's shape as original_shape, and the ledger is empty.
C13_LoadReplacesStore ==
    [][(call'.tool = "ReadCSVTool" /\ result'.kind = "DATASET LOADED") =>
          /\ current_dataset' = SourceTable(call'.file_path)
          /\ dataset_metadata'.file_path = call'.file_path
          /\ dataset_metadata'.file_name = Basename(call'.file_path)
          /\ dataset_metadata'.original_shape = Shape(current_dataset')
          /\ transformation_log' = <<>>]_vars

\* C13 witness: the semicolon file was loaded over a table that had been
\* transformed and saved, and the ledger is empty again.
C13_Witness ==
    /\ call.tool = "ReadCSVTool"
    /\ call.file_path = PathSemi
    /\ result.kind = "DATASET LOADED"
    /\ cleaned_data["cleaned"] # NoFile
    /\ cleaned_data["cleaned"].header # current_dataset.cols
    /\ transformation_log = <<>>

\* C14: a line is written to the durable log only for a transformation that
\* was accepted and whose table is already the current table: whenever the
\* durable log grows, a table is loaded and the ledger holds the record of
\* an accepted transformation.
C14_DurableOnlyAfterCommit ==
    [][log_file' # log_file =>
          /\ current_dataset # None
          /\ AppliedRecords # <<>>]_vars

\* The inspection, profiling and analysis operations.
Inspectors ==
    {"InspectDataTool", "ViewColumnTool", "CalculateStatsTool",
     "SaveSchemaTool", "DetectOutliersTool", "TrendAnalysisTool"}

\* What the call c returns when it is made on the given store; for
\* SaveSchemaTool, the profile it writes.
CallAgain(c, dataset, imported, metadata) ==
    CASE c.tool = "InspectDataTool" ->
            IF dataset = None
            THEN [kind |-> "ERROR: No dataset loaded. Use ReadCSVTool first."]
            ELSE InspectData(dataset, c.aspect)
      [] c.tool = "ViewColumnTool" ->
            IF dataset = None
            THEN [kind |-> "ERROR: No dataset loaded."]
            ELSE ViewColumn(dataset, c.column_name)
      [] c.tool = "CalculateStatsTool" ->
            IF dataset = None
            THEN [kind |-> "ERROR: No dataset loaded."]
            ELSE CalculateStats(dataset, c.stat_type, c.parameters)
      [] c.tool = "SaveSchemaTool" ->
            IF dataset = None
            THEN [kind |-> "ERROR: No dataset loaded."]
            ELSE SchemaInfo(dataset, metadata, Now)
      [] c.tool = "DetectOutliersTool" ->
            IF imported["detect_outliers_tool"] = None
            THEN [kind |-> "ERROR: No dataset loaded."]
            ELSE [kind |-> "REPORT",
                  dataset |-> imported["detect_outliers_tool"]]
      [] c.tool = "TrendAnalysisTool" ->
            IF imported["trend_analysis_tool"] = None
            THEN [kind |-> "ERROR: No dataset loaded."]
            ELSE [kind |-> "REPORT",
                  dataset |-> imported["trend_analysis_tool"]]

\* C15: an inspection, profiling or analysis call leaves the current table,
\* the metadata and the ledger as they were, whatever it returns, and the
\* same call made again on the store it left would return the same result
\* (for SaveSchemaTool: would write the profile it has just written, the
\* time stamp apart).
C15_InspectorsReadOnly ==
    [][call'.tool \in Inspectors =>
          /\ UNCHANGED <<current_dataset, dataset_metadata, transformation_log>>
          /\ IF call'.tool = "SaveSchemaTool" /\ current_dataset # None
             THEN result'.kind = "ENHANCED SCHEMA SAVED" =>
                     schema_map'.json =
                       CallAgain(call', current_dataset', imported_dataset',
                                 dataset_metadata')
             ELSE result' = CallAgain(call', current_dataset', imported_dataset',
                                       dataset_metadata')]_vars

\* C15 witness: ViewColumnTool reported on a column with a missing cell of
\* a table that had been transformed, and the missing cell is still there.
C15_Witness ==
    /\ call.tool = "ViewColumnTool"
    /\ result.kind = "COLUMN"
    /\ result.null_count > 0
    /\ transformation_log # <<>>
    /\ NullCount(Column(current_dataset, call.column_name)) = result.null_count

\* C16: after an accepted transformation (one whose table became the
\* current table and whose record is in the ledger) the cleaned-data file
\* the call names holds the columns and the rows of the current table and
\* nothing else: as many lines as the table has rows, as many fields per
\* line as it has columns.
C16_CleanedFileIsLiveTable ==
    [][(/\ call'.tool = "SafeExecuteTool"
        /\ Len(transformation_log') = Len(transformation_log) + 1) =>
          LET f == cleaned_data'[call'.save_name]
          IN  /\ f # NoFile
              /\ f.header = current_dataset'.cols
              /\ f.lines = current_dataset'.rows
              /\ Len(f.lines) = Shape(current_dataset')[1]]_vars

\* C17: drop_duplicates() applied through SafeExecuteTool right after an
\* applied drop_duplicates() leaves the table as the first application left
\* it, and its ledger record has an after-shape equal to its before-shape.
C17_DeduplicateIdempotent ==
    [][(/\ call.tool = "SafeExecuteTool"
        /\ call.operation = OpDropDuplicates
        /\ transformation_log # <<>>
        /\ IsApplied(transformation_log[Len(transformation_log)])
        /\ transformation_log[Len(transformation_log)].operation =
              OpDropDuplicates
        /\ call'.tool = "SafeExecuteTool"
        /\ call'.operation = OpDropDuplicates
        /\ Len(transformation_log') = Len(transformation_log) + 1) =>
          LET second == transformation_log'[Len(transformation_log')]
          IN  /\ current_dataset' = current_dataset
              /\ second.operation = OpDropDuplicates
              /\ second.before = Shape(current_dataset)
              /\ second.after = second.before]_vars

\* C17 witness: two drop_duplicates() records in a row, the first of which
\* removed a row and the second none.
C17_Witness ==
    /\ Len(transformation_log) = 2
    /\ transformation_log[1].kind = "Applied"
    /\ transformation_log[2].kind = "Applied"
    /\ transformation_log[1].operation = OpDropDuplicates
    /\ transformation_log[2].operation = OpDropDuplicates
    /\ transformation_log[1].after[1] < transformation_log[1].before[1]
    /\ transformation_log[2].after = transformation_log[2].before
    /\ call.operation = OpDropDuplicates

OutlierErrors ==
    {"Column not found", "Column is not numeric. Cannot detect outliers.",
     "Column has no valid data to analyze."}

TrendErrors ==
    {"ERROR: Date column not found", "ERROR: Value column not found",
     "ERROR: No valid dates found", "ERROR: No valid numeric values found",
     "ERROR: Invalid frequency"}

\* The cells of the column name of df, as a set of <<row, cell>>.
CellsOf(df, name) ==
    {<<r, df.rows[r][c]>> :
        r \in DOMAIN df.rows,
        c \in {d \in DOMAIN df.cols : df.cols[d] = name}}

\* A cell that stands for a date: a date written as text, or a number in a
\* column of numbers.
ReadsAsDate(df, name, cell) ==
    /\ cell # NaN
    /\ \/ cell \in DateText..(OtherText - 1)
       \/ \A rc \in CellsOf(df, name) : rc[2] < TextCode

\* C18: with a table loaded, outlier detection answers a column that is
\* absent, holds text or holds no value with the error that says so, and
\* trend analysis answers an absent date or value column, a date column
\* with no date in it, or no row with both a date and a number, with the
\* error that says so; a report is never made over zero values.
C18_AnalysisErrors ==
    result.kind # "none" =>
      LET df == call.dataset
      IN  /\ call.tool = "DetectOutliersTool" =>
                LET cells == CellsOf(df, call.column_name)
                IN  /\ cells = {} /\ ~HasColumn(df, call.column_name)
                          => result.kind = "Column not found"
                    /\ (\E rc \in cells : rc[2] >= TextCode)
                          => result.kind =
                                "Column is not numeric. Cannot detect outliers."
                    /\ (HasColumn(df, call.column_name)
                          /\ \A rc \in cells : rc[2] = NaN)
                          => result.kind = "Column has no valid data to analyze."
                    /\ result.kind \in OutlierErrors
                          \/ (/\ result.kind = "OUTLIER DETECTION REPORT"
                              /\ result.total > 0)
          /\ call.tool = "TrendAnalysisTool" =>
                LET dates == CellsOf(df, call.date_column)
                    values == CellsOf(df, call.value_column)
                IN  /\ ~HasColumn(df, call.date_column)
                          => result.kind = "ERROR: Date column not found"
                    /\ (HasColumn(df, call.date_column)
                          /\ ~HasColumn(df, call.value_column))
                          => result.kind = "ERROR: Value column not found"
                    /\ (/\ HasColumn(df, call.date_column)
                        /\ HasColumn(df, call.value_column)
                        /\ \A rc \in dates :
                              ~ReadsAsDate(df, call.date_column, rc[2]))
                          => result.kind = "ERROR: No valid dates found"
                    /\ (/\ HasColumn(df, call.date_column)
                        /\ HasColumn(df, call.value_column)
                        /\ \E rc \in dates :
                              ReadsAsDate(df, call.date_column, rc[2])
                        /\ \A rc \in dates :
                              ReadsAsDate(df, call.date_column, rc[2]) =>
                                 \E vc \in values :
                                    /\ vc[1] = rc[1]
                                    /\ (vc[2] = NaN \/ vc[2] >= TextCode))
                          => result.kind =
                                "ERROR: No valid numeric values found"
                    /\ result.kind \in TrendErrors
                          \/ (/\ result.kind = "TREND ANALYSIS REPORT"
                              /\ result.valid_count > 0)

\* C18 witness: outlier detection on a column that is there, in a table
\* with rows, and holds nothing but missing cells returned the error.
C18_Witness ==
    /\ call.tool = "DetectOutliersTool"
    /\ call.column_name = ColumnN
    /\ Len(call.dataset.rows) > 1
    /\ result.kind = "Column has no valid data to analyze."

\* The sum of the squares of the values.
SumOfSquares(series) == Sum([i \in DOMAIN series |-> series[i] * series[i]])

\* |v - mean| / stddev > 3 for the sample standard deviation, written with
\* the variance as (sum of squares - n * mean * mean) / (n - 1) and both
\* sides multiplied by n * n * (n - 1).
BeyondThreeSigma(series, v) ==
    LET n == Len(series)
        total == Sum(series)
    IN  (n * v - total) * (n * v - total) * (n - 1)
            > 9 * n * (n * SumOfSquares(series) - total * total)

\* The values of column a of the call's table that are not missing.
CalledSeries ==
    LET cells == Column(call.dataset, ColumnA)
    IN  SelectIdx(cells, {i \in DOMAIN cells : cells[i] >= 0}, 1)

\* C19: the z-score method flags a value exactly when it lies more than
\* three standard deviations from the mean; when all values are equal, or
\* there is only one, the report is made, with zero values flagged.
C19_ZScoreRule ==
    (/\ result.kind = "OUTLIER DETECTION REPORT"
     /\ call.column_name = ColumnA
     /\ result.zscore.run) =>
        LET series == CalledSeries
            spread == \E i, j \in DOMAIN series : series[i] # series[j]
            flagged == SelectIdx(series,
                                 {i \in DOMAIN series :
                                     spread /\ BeyondThreeSigma(series,
                                                                series[i])},
                                 1)
        IN  /\ result.zscore.outliers_found = Len(flagged)
            /\ Len(flagged) =< 10 => result.zscore.listing.values = flagged
            /\ ~spread => result.zscore.outliers_found = 0

\* C19 witness: one value among eleven was flagged.
C19_Witness ==
    /\ result.kind = "OUTLIER DETECTION REPORT"
    /\ result.total = 11
    /\ result.zscore.run
    /\ result.zscore.outliers_found = 1
    /\ result.zscore.listing.values = <<0>>

\* The j-th smallest of the values: the value with fewer than j values
\* below it and at least j values not above it.
OrderStatistic(series, j) ==
    CHOOSE v \in {series[i] : i \in DOMAIN series} :
        /\ Cardinality({i \in DOMAIN series : series[i] < v}) < j
        /\ Cardinality({i \in DOMAIN series : series[i] =< v}) >= j

\* Four times the percentile at quarters / 4, interpolated linearly between
\* the order statistics around it.
Percentile4(series, quarters) ==
    LET at == (Len(series) - 1) * quarters
        below == OrderStatistic(series, (at \div 4) + 1)
    IN  IF at % 4 = 0 THEN 4 * below
        ELSE 4 * below
               + (at % 4) * (OrderStatistic(series, (at \div 4) + 2) - below)

FiveValues == <<1, 2, 3, 4, 100>>

\* C20: the IQR method flags a value exactly when it is below
\* Q1 - 1.5 * IQR or above Q3 + 1.5 * IQR, a value on a bound not being
\* flagged; of the column 1, 2, 3, 4, 100 it flags 100 and nothing else.
C20_IqrRule ==
    (/\ result.kind = "OUTLIER DETECTION REPORT"
     /\ call.column_name = ColumnA
     /\ result.iqr.run) =>
        LET series == CalledSeries
            q1 == Percentile4(series, 1)
            q3 == Percentile4(series, 3)
            flagged == SelectIdx(series,
                                 {i \in DOMAIN series :
                                     \/ 8 * series[i] < 2 * q1 - 3 * (q3 - q1)
                                     \/ 8 * series[i] > 2 * q3 + 3 * (q3 - q1)},
                                 1)
        IN  /\ result.iqr.q1x4 = q1
            /\ result.iqr.q3x4 = q3
            /\ result.iqr.outliers_found = Len(flagged)
            /\ Len(flagged) =< 10 => result.iqr.listing.values = flagged
            /\ series = FiveValues => flagged = <<100>>

\* C20 witness: of 1, 2, 3, 4, 7 nothing was flagged, 7 being the upper
\* bound itself.
C20_Witness ==
    /\ result.kind = "OUTLIER DETECTION REPORT"
    /\ result.iqr.run
    /\ Column(call.dataset, ColumnA) = <<1, 2, 3, 4, 7>>
    /\ result.iqr.upper_bound_x8 = 8 * 7
    /\ result.iqr.outliers_found = 0

\* The rows of the called table that hold a date and a number, each as
\* <<row, yyyymmdd, value>>.
SurvivingRows ==
    {<<p[1][1],
       IF p[1][2] \in DateText..(OtherText - 1)
       THEN p[1][2] - DateText ELSE 19700101,
       p[2][2]>> :
        p \in {q \in CellsOf(call.dataset, call.date_column)
                     \X CellsOf(call.dataset, call.value_column) :
                  /\ q[1][1] = q[2][1]
                  /\ ReadsAsDate(call.dataset, call.date_column, q[1][2])
                  /\ q[2][2] # NaN
                  /\ q[2][2] < TextCode}}

\* The period a date yyyymmdd lies in, by its year, quarter and month.
PeriodOf(date, frequency) ==
    LET year == date \div 10000
        month == (date - year * 10000) \div 100
        quarter == CHOOSE q \in 1..4 : 3 * q - 2 =< month /\ month =< 3 * q
    IN  CASE frequency = "Y" -> year
          [] frequency = "Q" -> 10 * year + quarter
          [] frequency = "M" -> 100 * year + month
          [] frequency = "D" -> date

\* The sum of the values of a set of rows <<row, date, value>>.
RECURSIVE ValueSum(_)
ValueSum(rows) ==
    IF rows = {} THEN 0
    ELSE LET s == CHOOSE t \in rows : TRUE
         IN  s[3] + ValueSum(rows \ {s})

\* The example of three months: 15 January, 10 February and 5 March 2023
\* with the values 10, 20 and 15, by month.
IsThreeMonthExample ==
    /\ call.tool = "TrendAnalysisTool"
    /\ call.frequency = "M"
    /\ SurvivingRows = {<<1, 20230115, 10>>, <<2, 20230210, 20>>,
                        <<3, 20230305, 15>>}

TrendLabels ==
    {"Strong Upward Trend", "Moderate Upward Trend", "Strong Downward Trend",
     "Moderate Downward Trend", "Stable/Flat Trend"}

\* C22: the growth analysis labels the overall growth g from the first to
\* the last period's sum, for a positive first sum: Strong Upward Trend
\* when g > 10, Moderate Upward Trend when 2 < g =< 10, Strong Downward
\* Trend when g < -10, Moderate Downward Trend when -10 =< g < -2, and
\* Stable/Flat Trend when -2 =< g =< 2; the label is always one of the
\* five, and the period sums 10, 20, 15 have g = 50 and Strong Upward Trend.
C22_TrendLabel ==
    (result.kind = "TREND ANALYSIS REPORT" /\ result.growth.run) =>
        LET data == result.trend_data
            f == data[1].sum
            l == data[Len(data)].sum
            label == result.growth.trend_direction
        IN  /\ result.growth.first_period = f
            /\ result.growth.last_period = l
            /\ label \in TrendLabels
            /\ f > 0 =>
                /\ label = "Strong Upward Trend" <=> 10 * l > 11 * f
                /\ label = "Moderate Upward Trend"
                       <=> (50 * l > 51 * f /\ 10 * l =< 11 * f)
                /\ label = "Strong Downward Trend" <=> 10 * l < 9 * f
                /\ label = "Moderate Downward Trend"
                       <=> (10 * l >= 9 * f /\ 50 * l < 49 * f)
                /\ label = "Stable/Flat Trend"
                       <=> (50 * l >= 49 * f /\ 50 * l =< 51 * f)
            /\ [k \in DOMAIN data |-> data[k].sum] = <<10, 20, 15>> =>
                /\ 100 * (l - f) = 50 * f
                /\ label = "Strong Upward Trend"

\* C22 witness: from 100 to 110 over four months the growth is 10 exactly
\* and the label Moderate Upward Trend.
C22_Witness ==
    /\ result.kind = "TREND ANALYSIS REPORT"
    /\ result.growth.run
    /\ result.total_periods = 4
    /\ result.growth.first_period = 100
    /\ result.growth.last_period = 110
    /\ result.growth.trend_direction = "Moderate Upward Trend"

\* The k-th (0-based) combination in the order of the claim: the
\* delimiters comma, semicolon, tab and pipe, and under each delimiter the
\* encodings UTF-8, Latin-1, CP1252 and ISO-8859-1.
PriorityCombination(k) ==
    [encoding |-> <<"utf-8", "latin-1", "cp1252", "iso-8859-1">>[(k % 4) + 1],
     sep |-> <<",", ";", "\t", "|">>[(k \div 4) + 1]]

\* The combinations that parse the file into more than one column.
ManyColumned(file_path) ==
    {k \in 0..15 :
        LET parsed == ReadCsv(file_path, PriorityCombination(k).encoding,
                              PriorityCombination(k).sep)
        IN  ~parsed.raised /\ Len(parsed.df.cols) > 1}

\* C23: the table ReadCSVTool leaves current is the parse (its column names
\* cleaned) of the first combination in priority order that parses into
\* more than one column; when there is none it is the default parse, or,
\* the default parse failing, the table that was current before: never a
\* combination's parse into a single column.
C23_FirstManyColumnedParse ==
    [][call'.tool = "ReadCSVTool" =>
          LET file_path == call'.file_path
              many == ManyColumned(file_path)
              first == CHOOSE k \in many : \A j \in many : k =< j
          IN  IF many # {}
              THEN /\ result'.kind = "DATASET LOADED"
                   /\ current_dataset' =
                          CleanColumns(
                              ReadCsv(file_path,
                                      PriorityCombination(first).encoding,
                                      PriorityCombination(first).sep).df)
              ELSE IF ReadCsvDefault(file_path).raised
              THEN /\ result'.kind = "ERROR loading"
                   /\ current_dataset' = current_dataset
              ELSE /\ result'.kind = "DATASET LOADED"
                   /\ current_dataset' =
                          CleanColumns(ReadCsvDefault(file_path).df)]_vars

\* The number of periods the rows with a date and a number lie in.
PeriodCount ==
    Cardinality({PeriodOf(s[2], call.frequency) : s \in SurvivingRows})

\* C24: a trend report over n periods holds the growth analysis (overall
\* growth from first to last sum, trend label, highest and lowest period)
\* exactly when n >= 3 and the recent trend exactly when n >= 6; a section
\* that is not there holds no value at all.
C24_SectionsGatedByPeriods ==
    result.kind = "TREND ANALYSIS REPORT" =>
        /\ result.total_periods = PeriodCount
        /\ result.growth.run <=> PeriodCount >= 3
        /\ result.recent.run <=> PeriodCount >= 6
        /\ DOMAIN result.growth =
               IF PeriodCount >= 3
               THEN {"run", "first_period", "last_period", "trend_direction",
                     "max_value", "min_value"}
               ELSE {"run"}
        /\ DOMAIN result.recent =
               IF PeriodCount >= 6
               THEN {"run", "first", "last", "recent_direction"}
               ELSE {"run"}

\* C24 witness: over five months the growth analysis is there and the
\* recent trend is not.
C24_Witness ==
    /\ result.kind = "TREND ANALYSIS REPORT"
    /\ PeriodCount = 5
    /\ result.growth.run
    /\ result.growth.trend_direction \in TrendLabels
    /\ result.recent = [run |-> FALSE]

\* C25: in a report over exactly six periods the recent trend is the
\* overall growth analysis: the same first and last sums, hence the same
\* growth, and the same label.
C25_RecentTrendAsOverall ==
    (/\ result.kind = "TREND ANALYSIS REPORT"
     /\ result.total_periods = 6
     /\ result.recent.run) =>
        /\ result.growth.run
        /\ result.recent.first = result.growth.first_period
        /\ result.recent.last = result.growth.last_period
        /\ result.recent.recent_direction = result.growth.trend_direction

\* C25 as the code has it: the recent trend's growth is taken from the
\* first and the last of the last six period sums, so that over exactly
\* six periods it is the overall growth; for a positive first sum it is
\* called Accelerating when above 5, Declining when below -5 and Stable
\* between.
C25_RecentGrowthOfLastSix ==
    (result.kind = "TREND ANALYSIS REPORT" /\ result.recent.run) =>
        LET data == result.trend_data
            f == data[Len(data) - 5].sum
            l == data[Len(data)].sum
            label == result.recent.recent_direction
        IN  /\ result.recent.first = f
            /\ result.recent.last = l
            /\ result.total_periods = 6 =>
                   /\ f = result.growth.first_period
                   /\ l = result.growth.last_period
            /\ label \in {"Accelerating", "Declining", "Stable"}
            /\ f > 0 =>
                /\ label = "Accelerating" <=> 20 * l > 21 * f
                /\ label = "Declining" <=> 20 * l < 19 * f
                /\ label = "Stable" <=> (20 * l >= 19 * f /\ 20 * l =< 21 * f)

\* C25 witness: over seven months that start 0, 20 and end 100 the recent
\* trend runs from 20 to 100 and is Accelerating, while the overall
\* growth starts from 0.
C25_Witness ==
    /\ result.kind = "TREND ANALYSIS REPORT"
    /\ result.total_periods = 7
    /\ result.recent.run
    /\ result.growth.first_period = 0
    /\ result.recent.first = 20
    /\ result.recent.last = 100
    /\ result.recent.recent_direction = "Accelerating"

\* The cells of a table that hold a value, as <<row, column>>.
FilledCells(df) ==
    {rc \in (DOMAIN df.rows) \X (DOMAIN df.cols) : df.rows[rc[1]][rc[2]] # NaN}

\* C26: the profile a successful SaveSchemaTool call writes is that of the
\* table current at the call, transformations included: its shape, its
\* column names, per column the number of missing cells, the number of
\* rows beyond the first of each distinct full row, and the non-null and
\* total cell counts completeness is the quotient of.
C26_SchemaOfCurrentTable ==
    (call.tool = "SaveSchemaTool" /\ result.kind = "ENHANCED SCHEMA SAVED") =>
        LET df == current_dataset
            info == schema_map.json
        IN  /\ info.shape = <<Len(df.rows), Len(df.cols)>>
            /\ info.columns = df.cols
            /\ DOMAIN info.missing_counts = DOMAIN df.cols
            /\ \A c \in DOMAIN df.cols :
                   info.missing_counts[c]
                       = Len(df.rows)
                           - Cardinality({rc \in FilledCells(df) : rc[2] = c})
            /\ info.duplicates
                   = Len(df.rows)
                       - Cardinality({df.rows[r] : r \in DOMAIN df.rows})
            /\ info.notna = Cardinality(FilledCells(df))
            /\ info.size = Len(df.rows) * Len(df.cols)
            /\ info.size > 0
            /\ schema_map.md.info = info

\* C26 witness: after dropna() took the sales table from 3 rows to 2, the
\* saved profile is that of the 2 rows: one duplicate, nothing missing,
\* complete.
C26_Witness ==
    /\ call.tool = "SaveSchemaTool"
    /\ result.kind = "ENHANCED SCHEMA SAVED"
    /\ transformation_log # <<>>
    /\ dataset_metadata.original_shape = <<3, 2>>
    /\ schema_map.json.shape = <<2, 2>>
    /\ schema_map.json.duplicates = 1
    /\ schema_map.json.missing_counts = <<0, 0>>
    /\ schema_map.json.notna = schema_map.json.size

\* C27: a trend report counts as valid the rows with a date and a number
\* and as original the rows of the called table; valid is at least 1 and at
\* most original, so completeness = valid / original * 100 lies between 0
\* and 100, and the low-completeness warning is in the report exactly when
\* completeness is below 90, that is when 10 * valid < 9 * original.
C27_TrendCompleteness ==
    result.kind = "TREND ANALYSIS REPORT" =>
        LET valid == Cardinality(SurvivingRows)
            original == Cardinality({rc[1] : rc \in CellsOf(call.dataset,
                                                        call.date_column)})
        IN  /\ result.valid_count = valid
            /\ result.original_count = original
            /\ 0 < valid
            /\ valid =< original
            /\ 0 =< 100 * valid /\ 100 * valid =< 100 * original
            /\ result.low_completeness <=> 10 * valid < 9 * original

\* C27 witness: 9 rows of 10 hold a date, completeness is 90 exactly and
\* there is no warning.
C27_Witness ==
    /\ result.kind = "TREND ANALYSIS REPORT"
    /\ result.valid_count = 9
    /\ result.original_count = 10
    /\ ~result.low_completeness

\* The values of the called column more than three deviations out, and
\* those outside the IQR bounds, in row order.
FlaggedByZScore ==
    SelectIdx(CalledSeries,
              {i \in DOMAIN CalledSeries :
                  /\ Len(CalledSeries) > 1
                  /\ BeyondThreeSigma(CalledSeries, CalledSeries[i])}, 1)

FlaggedByIqr ==
    LET q1 == Percentile4(CalledSeries, 1)
        q3 == Percentile4(CalledSeries, 3)
    IN  SelectIdx(CalledSeries,
                  {i \in DOMAIN CalledSeries :
                      \/ 8 * CalledSeries[i] < 2 * q1 - 3 * (q3 - q1)
                      \/ 8 * CalledSeries[i] > 2 * q3 + 3 * (q3 - q1)}, 1)

\* A section lists all of up to ten flagged values and the first five of
\* more.
ListsBoundedSample(section, flagged) ==
    /\ section.outliers_found = Len(flagged)
    /\ Len(flagged) =< 10 => section.listing.values = flagged
    /\ Len(flagged) > 10 =>
           section.listing.values = [i \in 1..5 |-> flagged[i]]

\* An outlier report of either package on column a.
IsOutlierReport ==
    /\ result.kind \in {"OUTLIER DETECTION REPORT", "Outlier Detection Report"}
    /\ call.column_name = ColumnA

\* C28: an outlier report holds the z-score section exactly when the
\* method is zscore or both and the IQR section exactly when it is iqr or
\* both (the tool without a method argument runs both); a section's count
\* and values are those of its own rule whatever else ran, IQR with its
\* quartiles and bounds; and a section lists all its flagged values when
\* they are at most 10 and the first 5 when they are more.
C28_MethodsAndSamples ==
    IsOutlierReport =>
        LET method == IF "method" \in DOMAIN call THEN call.method ELSE "both"
        IN  /\ result.zscore.run <=> method \in {"zscore", "both"}
            /\ result.iqr.run <=> method \in {"iqr", "both"}
            /\ result.zscore.run =>
                   ListsBoundedSample(result.zscore, FlaggedByZScore)
            /\ result.iqr.run =>
                   ListsBoundedSample(result.iqr, FlaggedByIqr)
            /\ (result.iqr.run /\ "method" \in DOMAIN call) =>
                   /\ result.iqr.q1x4 = Percentile4(CalledSeries, 1)
                   /\ result.iqr.q3x4 = Percentile4(CalledSeries, 3)

\* C28 for the tool of the analyst package alone.
C28_AnalystMethodsAndSamples ==
    result.kind = "OUTLIER DETECTION REPORT" => C28_MethodsAndSamples

\* C30: the z-score method, dividing by the sample standard deviation of
\* the values it scores, flags nothing in a column of at most 10 values:
\* a report with a flagged value is of a column of at least 11; of
\* 1, 2, 3, 4, 100 it flags nothing while IQR flags 100.
C30_NoZScoreOutlierUpToTen ==
    (/\ result.kind \in {"OUTLIER DETECTION REPORT", "Outlier Detection Report"}
     /\ result.zscore.run) =>
        /\ result.total =< 10 =>
               /\ result.zscore.outliers_found = 0
               /\ result.zscore.listing.values = <<>>
        /\ result.zscore.outliers_found > 0 => Len(CalledSeries) >= 11
        /\ (CalledSeries = FiveValues /\ result.iqr.run) =>
               /\ result.zscore.outliers_found = 0
               /\ result.iqr.listing.values = <<100>>

\* C30 witness: in nine zeros and a one, where a value lies as far out as
\* ten values allow, nothing was flagged by z-score and the one by IQR.
C30_Witness ==
    /\ result.kind = "OUTLIER DETECTION REPORT"
    /\ result.total = 10
    /\ result.sum = 1
    /\ result.zscore.run
    /\ result.zscore.outliers_found = 0
    /\ result.iqr.run
    /\ result.iqr.listing.values = <<1>>

\* The callers between taking their working copy and their commit.
BetweenCopyAndCommit(a) == {c \in Callers : a[c].pc \in {"copied", "shaped"}}

\* C29: the applies of two callers are serialized: at no time are two of
\* them between taking the working copy and the commit; an apply commits
\* over the very table it copied, so that no committed effect is lost; and
\* its ledger record holds the shape of the table its expression was
\* evaluated on and the shape of its own result.
C29_AppliesSerialized ==
    [][/\ Cardinality(BetweenCopyAndCommit(applying')) =< 1
       /\ \A c \in Callers :
             /\ (applying[c].pc = "shaped" /\ applying'[c].pc = "committed")
                   => current_dataset = applying[c].df
             /\ (applying[c].pc = "committed" /\ applying'[c].pc = "logged")
                   => LET record ==
                              transformation_log'[Len(transformation_log')]
                      IN  /\ record.before = Shape(applying[c].df)
                          /\ record.after = Shape(applying[c].result_df)]_vars

\* A lost update under C29: both callers have committed and returned, the
\* ledger holds dropna() and drop(columns=['b']) as applied, and the
\* current table still has its missing cell.
C29_LostUpdate ==
    /\ applying = [c \in Callers |-> Idle]
    /\ Len(transformation_log) = 2
    /\ {transformation_log[1].operation, transformation_log[2].operation}
           = {OpDropna, OpDropB}
    /\ \E r \in DOMAIN current_dataset.rows :
          \E c \in DOMAIN current_dataset.cols :
             current_dataset.rows[r][c] = NaN

====
